---------------------------- MODULE Spec2Model ----------------------------
(***************************************************************************)
(* Network-Alignment-Scorer: the three-stage scoring pipeline of           *)
(* network_alignment_scorer/scorer.py (get_mapping, get_go_terms,          *)
(* compute_score) and its driver score_alignment, and of utils/metrics.py  *)
(* JaccardSimilarity.calculate and                                         *)
(* AlignmentMetrics.calculate_alignment_score.                             *)
(*                                                                         *)
(* A token is a sequence of one-character strings, a file line is the     *)
(* list of tokens left by line.strip().split().  Files are read as        *)
(* streams: each step of a parser reads one more line.  Scores are exact  *)
(* rationals, stored as integers scaled by Scale.                         *)
(***************************************************************************)
EXTENDS Integers, Sequences, FiniteSets, TLC

VARIABLES
    header,          \* get_mapping: tokens of the header line
    map_read,        \* get_mapping: the data lines read so far
    mapping_list,    \* get_mapping: list under construction; get_go_terms: its argument
    map_pc,          \* get_mapping: "idle", "run", "done" (returned), "failed" (raised),
                     \* "other" (called on another file), "again" (called again)
    map_other,       \* get_mapping: the list returned by a call on another file
    map_second,      \* get_mapping: the list returned by the second call on the file
    skel_list,       \* final_assignment_skeleton.get_mapping: the list it built
    skel_pc,         \* final_assignment_skeleton.get_mapping: "idle", "done", "failed"
    go_line,         \* get_go_terms: the line read last
    value,           \* get_go_terms: local `value` ([bound, term])
    go_dict,         \* get_go_terms: dictionary under construction
    go_pc,           \* get_go_terms: "idle", "run", "done", "failed"
    go_one_dict,     \* compute_score: argument
    go_two_dict,     \* compute_score: argument
    aln_read,        \* compute_score: the alignment lines read so far
    unmappable_one,  \* compute_score: local counter
    unmappable_two,  \* compute_score: local counter
    score,           \* compute_score: running total, scaled by Scale
    protein1_go,     \* compute_score: local ([bound, terms])
    protein2_go,     \* compute_score: local ([bound, terms])
    score_pc,        \* compute_score: "idle", "run", "done", "failed"
    go_terms_1,      \* JaccardSimilarity.calculate: argument
    go_terms_2,      \* JaccardSimilarity.calculate: argument
    jac_result,      \* JaccardSimilarity.calculate: returned value, scaled by Scale
    jac_swapped,     \* value returned by the call with the arguments exchanged
    jac_pc,          \* JaccardSimilarity.calculate: "idle", "run", "done", "both"
    files,           \* score_alignment: the input files that exist
    align_pc,        \* score_alignment: "idle", the file being opened,
                     \* "compute_score", "done" (returned), "failed" (raised)
    raised,          \* score_alignment: the exception that ended the run
    results,         \* score_alignment: the dictionary returned
    go_annotations_1, \* calculate_alignment_score: argument
    go_annotations_2, \* calculate_alignment_score: argument
    metric,          \* calculate_alignment_score: argument
    pairs_read,      \* calculate_alignment_score: the pairs iterated so far
    scores,          \* calculate_alignment_score: local list, scaled by Scale
    unmappable_1,    \* calculate_alignment_score: local counter
    unmappable_2,    \* calculate_alignment_score: local counter
    metrics_result,  \* calculate_alignment_score: the dictionary returned
    metrics_pc,      \* calculate_alignment_score: "idle", "run", "done", "failed"
    load_go_1,       \* core load_data: the lines of go_file_1
    load_go_2,       \* core load_data: the lines of go_file_2
    parser_mappings, \* core MappingParser.mappings
    parser_reverse,  \* core MappingParser.reverse_mappings
    analyzer,        \* core NetworkAlignmentScorer.go_analyzer: the GOAnalyzer's fields
    core_mappings,   \* core NetworkAlignmentScorer.mappings
    core_go_annotations, \* core NetworkAlignmentScorer.go_annotations
    core_alignments, \* core NetworkAlignmentScorer.alignments
    load_raised,     \* core load_data: the exception that ended it
    load_pc,         \* core load_data: "idle", the file being parsed, "done", "failed"
    skel_read,       \* skeleton compute_score: the number of lines read
    skel_unmappable_one, \* skeleton compute_score: its unmappable_one
    skel_unmappable_two, \* skeleton compute_score: its unmappable_two
    skel_score,      \* skeleton compute_score: its score, times Scale
    skel_protein1_go,    \* skeleton compute_score: its protein1_go, unbound at first
    skel_protein2_go,    \* skeleton compute_score: its protein2_go, unbound at first
    skel_raised,     \* skeleton compute_score: the exception that ended it
    skel_score_pc,   \* skeleton compute_score: "idle", "run", "done", "failed"
    filter_threshold,    \* core filter_high_quality_alignments: threshold, times Scale
    filter_metric,   \* core filter_high_quality_alignments: metric
    detailed_scores, \* core get_detailed_pair_scores: the rows of its results
    high_quality,    \* core filter_high_quality_alignments: the list returned
    filter_raised,   \* core filter_high_quality_alignments: the exception that ended it
    filter_pc,       \* core filter_high_quality_alignments: "idle", "scores", "done", "failed"
    perm_file,       \* compute_score twice: the lines of the alignment file
    perm_order,      \* compute_score twice: the same lines in the second file's order
    perm_read,       \* compute_score twice: lines read by the running call
    perm_unmappable_one, \* compute_score twice: unmappable_one of the running call
    perm_unmappable_two, \* compute_score twice: unmappable_two of the running call
    perm_score,      \* compute_score twice: score of the running call, a float
    perm_first,      \* compute_score twice: outcome of the call on the file
    perm_second,     \* compute_score twice: outcome of the call on the permuted file
    perm_pc          \* compute_score twice: "idle", "first", "permute", "second", "done"

mapVars == <<header, map_read, map_pc, map_other, map_second, skel_list, skel_pc>>
goVars == <<go_line, value, go_dict, go_pc>>
scoreVars == <<go_one_dict, go_two_dict, aln_read, unmappable_one, unmappable_two,
               score, protein1_go, protein2_go, score_pc>>
jacVars == <<go_terms_1, go_terms_2, jac_result, jac_swapped, jac_pc>>
alignVars == <<files, align_pc, raised, results>>
metVars == <<go_annotations_1, go_annotations_2, metric, pairs_read, scores,
             unmappable_1, unmappable_2, metrics_result, metrics_pc>>
loadVars == <<load_go_1, load_go_2, parser_mappings, parser_reverse, analyzer,
              core_mappings, core_go_annotations, core_alignments, load_raised, load_pc>>
skelScoreVars == <<skel_read, skel_unmappable_one, skel_unmappable_two, skel_score,
                   skel_protein1_go, skel_protein2_go, skel_raised, skel_score_pc>>
filterVars == <<filter_threshold, filter_metric, detailed_scores, high_quality,
                filter_raised, filter_pc>>
permVars == <<perm_file, perm_order, perm_read, perm_unmappable_one,
              perm_unmappable_two, perm_score, perm_first, perm_second, perm_pc>>
vars == <<mapVars, mapping_list, goVars, scoreVars, jacVars, alignVars, metVars,
          loadVars, skelScoreVars, filterVars, permVars>>

\* what the steps of one function leave unchanged
notMap ==
    <<goVars, scoreVars, jacVars, alignVars, metVars, loadVars,
      skelScoreVars, filterVars, permVars>>
notGo ==
    <<mapVars, scoreVars, jacVars, alignVars, metVars, loadVars,
      skelScoreVars, filterVars, permVars>>
notScore ==
    <<mapVars, mapping_list, goVars, jacVars, alignVars, metVars, loadVars,
      skelScoreVars, filterVars, permVars>>
notJac ==
    <<mapVars, mapping_list, goVars, scoreVars, alignVars, metVars, loadVars,
      skelScoreVars, filterVars, permVars>>
notAlign ==
    <<mapVars, mapping_list, goVars, jacVars, metVars, loadVars,
      skelScoreVars, filterVars, permVars>>
notMetrics ==
    <<mapVars, mapping_list, goVars, scoreVars, jacVars, alignVars, loadVars,
      skelScoreVars, filterVars, permVars>>
notLoad ==
    <<mapVars, mapping_list, goVars, scoreVars, jacVars, alignVars, metVars,
      skelScoreVars, filterVars, permVars>>
notSkelScore ==
    <<mapVars, mapping_list, goVars, scoreVars, jacVars, alignVars, metVars, loadVars,
      filterVars, permVars>>
notFilter ==
    <<mapVars, mapping_list, goVars, scoreVars, jacVars, alignVars, metVars, loadVars,
      skelScoreVars, permVars>>
notPerm ==
    <<mapVars, mapping_list, goVars, scoreVars, jacVars, alignVars, metVars, loadVars,
      skelScoreVars, filterVars>>

-----------------------------------------------------------------------------
(* Bounds of the model *)

MaxHeaderToks == 3   \* tokens on a mapping file's header line
MaxMapToks == 3      \* tokens on a mapping file's data line
MaxMapLines == 2     \* data lines of a mapping file
MaxMaps == 2         \* lookup maps handed to get_go_terms
MaxGoToks == 3       \* tokens on a GO file's line
MaxAlnLines == 2     \* lines of an alignment file
NTerms == 3          \* GO terms occurring in the sets given to calculate
MaxPairs == 2        \* pairs in the list given to calculate_alignment_score
MaxCoreLines == 1    \* lines of a GO or alignment file given to core load_data
MaxPermLines == 3    \* lines of the alignment file scored in two orders

-----------------------------------------------------------------------------
(* Python values *)

\* an empty dict
EmptyDict == [k \in {} |-> <<>>]

\* dictionaries with keys in D and values in R
Dicts(D, R) == UNION {[S -> R] : S \in SUBSET D}

\* the token lists of at most n tokens
TokSeqs(pool, n) == UNION {[1..k -> pool] : k \in 0..n}

\* lists of at most n elements of S
ListsUpTo(S, n) == UNION {[1..k -> S] : k \in 0..n}

Max(S) == CHOOSE m \in S : \A n \in S : n <= m

RECURSIVE Gcd(_, _)
Gcd(a, b) == IF b = 0 THEN a ELSE Gcd(b, a % b)

RECURSIVE LcmUpTo(_)
LcmUpTo(n) == IF n <= 1 THEN 1 ELSE (LcmUpTo(n - 1) * n) \div Gcd(LcmUpTo(n - 1), n)

Digits == <<"1", "2", "3", "4", "5", "6", "7", "8", "9">>

\* the first n GO terms (prefix already stripped)
Terms(n) == {<<Digits[i]>> : i \in 1..n}

\* the GO terms of the annotation maps given to compute_score
ScoreTerms == {<<"1">>, <<"2">>}

\* the common denominator of every Jaccard coefficient of the model
Scale == LcmUpTo(IF NTerms > Cardinality(ScoreTerms)
                 THEN NTerms ELSE Cardinality(ScoreTerms))

-----------------------------------------------------------------------------
(* NetworkAlignmentScorer.get_mapping *)

\* tokens of the data lines of a mapping file
MapToks == {<<"E">>, <<"a">>}

\* the header line of h column names
HeaderOf(h) == [i \in 1..h |-> <<"I", "D">>]

\* the lines that may follow the header hdr: eqhdr is `line == header`
MapLines(hdr) ==
    {[toks |-> t, eqhdr |-> FALSE] : t \in TokSeqs(MapToks, MaxMapToks)}
        \cup {[toks |-> hdr, eqhdr |-> TRUE]}

\* d.update({k: v}) with last-write-wins replaced by first-write-wins
DictUpdateKeepFirst(d, k, v) ==
    [q \in DOMAIN d \cup {k} |-> IF q \in DOMAIN d THEN d[q] ELSE v]

\* d.update({k: v})
DictUpdate(d, k, v) ==
    [q \in DOMAIN d \cup {k} |-> IF q = k THEN v ELSE d[q]]

\* the loop `for key in range(1, len(x))` of get_mapping, from token `key`
\* (tokens are numbered from 1 here, so token key fills dictionary key - 1)
RECURSIVE FillDicts(_, _, _, _)
FillDicts(ml, x, key, hlen) ==
    IF key > Len(x) THEN ml
    ELSE IF Len(x) = hlen
         THEN FillDicts([ml EXCEPT ![key - 1] = DictUpdate(@, x[key], x[1])],
                        x, key + 1, hlen)
         ELSE IF Len(x) = 1 THEN ml
         ELSE FillDicts(ml, x, key + 1, hlen)

\* mapping_list after `while n > 0: mapping_list.append({})`
NewMappingList(hlen) == [i \in 1..(IF hlen > 1 THEN hlen - 1 ELSE 0) |-> EmptyDict]

MapIdle ==
    /\ header = <<>>
    /\ map_read = <<>>
    /\ map_pc = "idle"
    /\ map_other = <<>>
    /\ map_second = <<>>
    /\ skel_list = <<>>
    /\ skel_pc = "idle"

InitMapping ==
    /\ \E h \in 0..MaxHeaderToks :
          /\ header = HeaderOf(h)
          /\ mapping_list = NewMappingList(h)
    /\ map_read = <<>>
    /\ map_pc = "run"
    /\ map_other = <<>>
    /\ map_second = <<>>
    /\ skel_list = <<>>
    /\ skel_pc = "idle"

\* a line equal to the header line: `continue`
MapSkipHeader ==
    /\ map_pc = "run"
    /\ Len(map_read) < MaxMapLines
    /\ \E line \in MapLines(header) :
          /\ line.eqhdr
          /\ map_read' = Append(map_read, line)
    /\ UNCHANGED <<header, mapping_list, map_pc, map_other, map_second, skel_list, skel_pc>>

\* a line without tokens: `value = x[0]` raises IndexError
MapRaise ==
    /\ map_pc = "run"
    /\ Len(map_read) < MaxMapLines
    /\ \E line \in MapLines(header) :
          /\ ~line.eqhdr
          /\ Len(line.toks) = 0
          /\ map_read' = Append(map_read, line)
    /\ map_pc' = "failed"
    /\ UNCHANGED <<header, mapping_list, map_other, map_second, skel_list, skel_pc>>

\* any other line: fill the dictionaries
MapFillLine ==
    /\ map_pc = "run"
    /\ Len(map_read) < MaxMapLines
    /\ \E line \in MapLines(header) :
          /\ ~line.eqhdr
          /\ Len(line.toks) > 0
          /\ map_read' = Append(map_read, line)
          /\ mapping_list' = FillDicts(mapping_list, line.toks, 2, Len(header))
    /\ UNCHANGED <<header, map_pc, map_other, map_second, skel_list, skel_pc>>

\* end of file: `return mapping_list`
MapReturn ==
    /\ map_pc = "run"
    /\ map_pc' = "done"
    /\ UNCHANGED <<header, map_read, mapping_list, map_other, map_second, skel_list, skel_pc>>

\* a call that keeps the list of the previous call instead of starting anew
KeptList(previous) == previous

\* `mapping_list = []`: every call starts from a new list, whatever list the
\* previous call on the object built
FreshList(previous) == <<>>

\* the loop `for line in f` over the data lines of a whole file
RECURSIVE FillLines(_, _, _)
FillLines(ml, lines, hlen) ==
    IF lines = <<>> THEN [raised |-> FALSE, list |-> ml]
    ELSE LET line == Head(lines)
         IN IF line.eqhdr THEN FillLines(ml, Tail(lines), hlen)
            ELSE IF Len(line.toks) = 0 THEN [raised |-> TRUE, list |-> ml]
            ELSE FillLines(FillDicts(ml, line.toks, 2, hlen), Tail(lines), hlen)

\* a whole call of get_mapping on the file of header hdr and data lines
\* `lines`, made after a call that built the list `previous`
GetMapping(previous, hdr, lines) ==
    FillLines(FreshList(previous) \o NewMappingList(Len(hdr)), lines, Len(hdr))

\* two other mapping files
OtherMapFiles ==
    {[header |-> HeaderOf(2),
      lines |-> <<[toks |-> <<<<"a">>, <<"E">>>>, eqhdr |-> FALSE]>>],
     [header |-> HeaderOf(3),
      lines |-> <<[toks |-> <<<<"E">>, <<"E">>, <<"a">>>>, eqhdr |-> FALSE]>>]}

\* after the first call returned, get_mapping is called on another file
MapCallOther ==
    /\ map_pc = "done"
    /\ \E f \in OtherMapFiles :
          map_other' = GetMapping(mapping_list, f.header, f.lines).list
    /\ map_pc' = "other"
    /\ UNCHANGED <<header, map_read, mapping_list, map_second, skel_list, skel_pc>>

\* get_mapping is called a second time on the file of the first call
MapCallAgain ==
    /\ map_pc \in {"done", "other"}
    /\ LET previous == IF map_pc = "other" THEN map_other ELSE mapping_list
       IN map_second' = GetMapping(previous, header, map_read).list
    /\ map_pc' = "again"
    /\ UNCHANGED <<header, map_read, mapping_list, map_other, skel_list, skel_pc>>

-----------------------------------------------------------------------------
(* final_assignment_skeleton.get_mapping *)

\* `len(line)` of a line written with single blanks and ended by a newline
RECURSIVE LineChars(_)
LineChars(toks) ==
    IF toks = <<>> THEN 1 ELSE Len(Head(toks)) + LineChars(Tail(toks))

\* the loop `for key in range(1, len(x))` of the skeleton, which compares
\* len(x) with len(header), the number of characters of the header line
RECURSIVE SkelFillDicts(_, _, _, _)
SkelFillDicts(ml, x, key, hchars) ==
    IF key > Len(x) THEN [raised |-> FALSE, list |-> ml]
    ELSE IF Len(x) = hchars
         THEN IF key - 1 > Len(ml)
              THEN [raised |-> TRUE, list |-> ml]
              ELSE SkelFillDicts([ml EXCEPT ![key - 1] = DictUpdate(@, x[key], x[1])],
                                 x, key + 1, hchars)
         ELSE IF Len(x) = 1 THEN [raised |-> FALSE, list |-> ml]
         ELSE SkelFillDicts(ml, x, key + 1, hchars)

\* the loop `for line in f` of the skeleton over the data lines of a file
RECURSIVE SkelFillLines(_, _, _)
SkelFillLines(ml, lines, hchars) ==
    IF lines = <<>> THEN [raised |-> FALSE, list |-> ml]
    ELSE LET line == Head(lines)
         IN IF line.eqhdr THEN SkelFillLines(ml, Tail(lines), hchars)
            ELSE IF Len(line.toks) = 0 THEN [raised |-> TRUE, list |-> ml]
            ELSE LET filled == SkelFillDicts(ml, line.toks, 2, hchars)
                 IN IF filled.raised THEN filled
                    ELSE SkelFillLines(filled.list, Tail(lines), hchars)

\* a whole call of the skeleton's get_mapping
SkelGetMapping(hdr, lines) ==
    SkelFillLines(NewMappingList(Len(hdr)), lines, LineChars(hdr))

\* the skeleton's get_mapping is called on the file that get_mapping read
SkelCallGetMapping ==
    /\ map_pc \in {"done", "failed"}
    /\ skel_pc = "idle"
    /\ LET call == SkelGetMapping(header, map_read)
       IN /\ skel_list' = call.list
          /\ skel_pc' = IF call.raised THEN "failed" ELSE "done"
    /\ UNCHANGED <<header, map_read, mapping_list, map_pc, map_other, map_second>>

-----------------------------------------------------------------------------
(* NetworkAlignmentScorer.get_go_terms *)

\* foreign identifiers, canonical identifiers and tokens of a GO file
GoQueries == {<<"X">>}
Canon == {<<"E">>, <<"F">>}
GoToks == GoQueries \cup {<<"G", "O", ":", "1">>, <<"G", "O", ":", "2", "O">>}

\* the lines of a GO file: comment is line.startswith("!")
GoLines ==
    {[comment |-> TRUE, toks |-> <<>>]}
        \cup {[comment |-> FALSE, toks |-> t] : t \in TokSeqs(GoToks, MaxGoToks)}

\* the identifier tables handed to get_go_terms
GoTables == ListsUpTo(Dicts(GoQueries, Canon), MaxMaps)

\* item.startswith("GO:")
StartsWithGO(item) ==
    /\ Len(item) >= 3
    /\ item[1] = "G" /\ item[2] = "O" /\ item[3] = ":"

\* the characters removed by item.strip("GO:")
StripChars == {"G", "O", ":"}

RECURSIVE LStrip(_)
LStrip(t) == IF t = <<>> \/ t[1] \notin StripChars THEN t ELSE LStrip(Tail(t))

RECURSIVE RStrip(_)
RStrip(t) ==
    IF t = <<>> \/ t[Len(t)] \notin StripChars THEN t
    ELSE RStrip(SubSeq(t, 1, Len(t) - 1))

\* item.strip("GO:"): leading and trailing characters of the set are removed
Strip(item) == RStrip(LStrip(item))

\* the loop `for item in x` with the first GO token kept instead of the last
RECURSIVE FindValueFirst(_, _, _)
FindValueFirst(x, i, v) ==
    IF i > Len(x) THEN v
    ELSE IF StartsWithGO(x[i]) THEN [bound |-> TRUE, term |-> Strip(x[i])]
         ELSE FindValueFirst(x, i + 1, v)

\* the loop `for item in x`, from token i: `value` keeps the last GO token
RECURSIVE FindValue(_, _, _)
FindValue(x, i, v) ==
    IF i > Len(x) THEN v
    ELSE FindValue(x, i + 1,
                   IF StartsWithGO(x[i]) THEN [bound |-> TRUE, term |-> Strip(x[i])]
                   ELSE v)

\* mapping_list.index(d): position of the first dictionary equal to d
IndexOf(ml, d) == CHOOSE i \in 1..Len(ml) :
                     /\ ml[i] = d
                     /\ \A j \in 1..(i - 1) : ml[j] # d

\* the update of go_dict with the set replaced instead of augmented
AddTermReplace(gd, key, v) ==
    [k \in DOMAIN gd \cup {key} |-> IF k = key THEN {v} ELSE gd[k]]

\* `if key in go_dict: go_dict[key].add(value) else: go_dict[key] = {value}`
AddTerm(gd, key, v) ==
    IF key \in DOMAIN gd
    THEN [gd EXCEPT ![key] = @ \cup {v}]
    ELSE [k \in DOMAIN gd \cup {key} |-> IF k = key THEN {v} ELSE gd[k]]

\* the loop `for d in mapping_list`, from dictionary i (there is no break)
RECURSIVE AddToDicts(_, _, _, _, _)
AddToDicts(gd, ml, i, query, v) ==
    IF i > Len(ml) THEN gd
    ELSE IF query \in DOMAIN ml[i]
         THEN AddToDicts(AddTerm(gd, ml[IndexOf(ml, ml[i])][query], v),
                         ml, i + 1, query, v)
         ELSE AddToDicts(gd, ml, i + 1, query, v)

\* some dictionary of the table has the query as a key
Resolvable(ml, query) == \E i \in 1..Len(ml) : query \in DOMAIN ml[i]

InitGoTerms ==
    /\ mapping_list \in GoTables
    /\ go_line = [comment |-> TRUE, toks |-> <<>>]
    /\ value = [bound |-> FALSE, term |-> <<>>]
    /\ go_dict = EmptyDict
    /\ go_pc = "run"

\* a line that starts with "!": `continue`
GoSkipComment ==
    /\ go_pc = "run"
    /\ \E line \in GoLines :
          /\ line.comment
          /\ go_line' = line
    /\ UNCHANGED <<mapping_list, value, go_dict, go_pc>>

\* a line of fewer than two tokens: `query = x[1]` raises IndexError
GoRaiseIndex ==
    /\ go_pc = "run"
    /\ \E line \in GoLines :
          /\ ~line.comment
          /\ Len(line.toks) < 2
          /\ go_line' = line
    /\ go_pc' = "failed"
    /\ UNCHANGED <<mapping_list, value, go_dict>>

\* a resolvable line while `value` was never assigned: UnboundLocalError
GoRaiseUnbound ==
    /\ go_pc = "run"
    /\ \E line \in GoLines :
          /\ ~line.comment
          /\ Len(line.toks) >= 2
          /\ ~FindValue(line.toks, 1, value).bound
          /\ Resolvable(mapping_list, line.toks[2])
          /\ go_line' = line
    /\ go_pc' = "failed"
    /\ UNCHANGED <<mapping_list, value, go_dict>>

\* any other line: keep its last GO token, add it under every resolution
GoProcessLine ==
    /\ go_pc = "run"
    /\ \E line \in GoLines :
          /\ ~line.comment
          /\ Len(line.toks) >= 2
          /\ LET v == FindValue(line.toks, 1, value) IN
                /\ v.bound \/ ~Resolvable(mapping_list, line.toks[2])
                /\ value' = v
                /\ go_dict' = IF v.bound
                              THEN AddToDicts(go_dict, mapping_list, 1,
                                              line.toks[2], v.term)
                              ELSE go_dict
          /\ go_line' = line
    /\ UNCHANGED <<mapping_list, go_pc>>

\* end of file: `return go_dict`
GoReturn ==
    /\ go_pc = "run"
    /\ go_pc' = "done"
    /\ UNCHANGED <<mapping_list, go_line, value, go_dict>>

-----------------------------------------------------------------------------
(* NetworkAlignmentScorer.compute_score *)

\* compute_score reads x[0] and x[1] only: a line is modelled by its first
\* two tokens
AlnTokensRead == 2

\* annotated proteins, the annotation maps, and the lines of an alignment
\* file (protein U has no annotation)
Proteins == {<<"P">>, <<"Q">>}
AnnotationMaps == Dicts(Proteins, SUBSET ScoreTerms)

\* lines whose first token is "#", written without leading blanks
CommentLines == {<<<<"#">>>> \o t : t \in TokSeqs(Proteins, AlnTokensRead - 1)}

AlnLines == TokSeqs(Proteins \cup {<<"U">>}, AlnTokensRead) \cup CommentLines

\* the protein is a key of go_one_dict or of go_two_dict
Mappable(p, one, two) == p \in DOMAIN one \/ p \in DOMAIN two

\* the lookup with the two dictionaries tried in the other order
LookupTwoFirst(p, one, two) == IF p \in DOMAIN two THEN two[p] ELSE one[p]

\* `if p in go_one_dict: go_one_dict[p] elif p in go_two_dict: go_two_dict[p]`
Lookup(p, one, two) == IF p \in DOMAIN one THEN one[p] ELSE two[p]

\* the line score with len(s1) + len(s2) in place of the union's size
LineScoreOverSum(s1, s2) ==
    (Cardinality(s1 \cap s2) * Scale) \div (Cardinality(s1) + Cardinality(s2))

\* len(s1.intersection(s2)) / len(s1.union(s2)), scaled; needs a non-empty union
LineScore(s1, s2) ==
    (Cardinality(s1 \cap s2) * Scale) \div Cardinality(s1 \cup s2)

Bound(terms) == [bound |-> TRUE, terms |-> terms]

InitScore ==
    /\ go_one_dict \in AnnotationMaps
    /\ go_two_dict \in AnnotationMaps
    /\ aln_read = <<>>
    /\ unmappable_one = 0
    /\ unmappable_two = 0
    /\ score = 0
    /\ protein1_go = [bound |-> FALSE, terms |-> {}]
    /\ protein2_go = [bound |-> FALSE, terms |-> {}]
    /\ score_pc = "run"

\* a line without tokens: `protein1 = x[0]` raises IndexError
ScoreRaiseNoToken ==
    /\ score_pc = "run"
    /\ Len(aln_read) < MaxAlnLines
    /\ \E x \in AlnLines :
          /\ Len(x) = 0
          /\ aln_read' = Append(aln_read, x)
    /\ score_pc' = "failed"
    /\ UNCHANGED <<go_one_dict, go_two_dict, unmappable_one, unmappable_two,
                   score, protein1_go, protein2_go>>

\* the first protein's branch without its `continue`: the second protein is
\* looked at too, and counted when it is in neither dictionary
ScoreUnmappableOneNoContinue ==
    /\ score_pc = "run"
    /\ Len(aln_read) < MaxAlnLines
    /\ \E x \in AlnLines :
          /\ Len(x) >= 1
          /\ ~Mappable(x[1], go_one_dict, go_two_dict)
          /\ aln_read' = Append(aln_read, x)
          /\ unmappable_two' =
                IF Len(x) >= 2 /\ ~Mappable(x[2], go_one_dict, go_two_dict)
                THEN unmappable_two + 1 ELSE unmappable_two
    /\ unmappable_one' = unmappable_one + 1
    /\ UNCHANGED <<go_one_dict, go_two_dict, score, protein1_go, protein2_go, score_pc>>

\* the first protein is in neither dictionary: count it and `continue`
ScoreUnmappableOne ==
    /\ score_pc = "run"
    /\ Len(aln_read) < MaxAlnLines
    /\ \E x \in AlnLines :
          /\ Len(x) >= 1
          /\ ~Mappable(x[1], go_one_dict, go_two_dict)
          /\ aln_read' = Append(aln_read, x)
    /\ unmappable_one' = unmappable_one + 1
    /\ UNCHANGED <<go_one_dict, go_two_dict, unmappable_two, score,
                   protein1_go, protein2_go, score_pc>>

\* a one-token line whose protein is mapped: `protein2 = x[1]` raises IndexError
ScoreRaiseOneToken ==
    /\ score_pc = "run"
    /\ Len(aln_read) < MaxAlnLines
    /\ \E x \in AlnLines :
          /\ Len(x) = 1
          /\ Mappable(x[1], go_one_dict, go_two_dict)
          /\ aln_read' = Append(aln_read, x)
          /\ protein1_go' = Bound(Lookup(x[1], go_one_dict, go_two_dict))
    /\ score_pc' = "failed"
    /\ UNCHANGED <<go_one_dict, go_two_dict, unmappable_one, unmappable_two,
                   score, protein2_go>>

\* the second protein is in neither dictionary: count it and `continue`
ScoreUnmappableTwo ==
    /\ score_pc = "run"
    /\ Len(aln_read) < MaxAlnLines
    /\ \E x \in AlnLines :
          /\ Len(x) >= 2
          /\ Mappable(x[1], go_one_dict, go_two_dict)
          /\ ~Mappable(x[2], go_one_dict, go_two_dict)
          /\ aln_read' = Append(aln_read, x)
          /\ protein1_go' = Bound(Lookup(x[1], go_one_dict, go_two_dict))
    /\ unmappable_two' = unmappable_two + 1
    /\ UNCHANGED <<go_one_dict, go_two_dict, unmappable_one, score,
                   protein2_go, score_pc>>

\* both sets are empty: the division raises ZeroDivisionError
ScoreRaiseZeroDivision ==
    /\ score_pc = "run"
    /\ Len(aln_read) < MaxAlnLines
    /\ \E x \in AlnLines :
          /\ Len(x) >= 2
          /\ Mappable(x[1], go_one_dict, go_two_dict)
          /\ Mappable(x[2], go_one_dict, go_two_dict)
          /\ LET s1 == Lookup(x[1], go_one_dict, go_two_dict)
                 s2 == Lookup(x[2], go_one_dict, go_two_dict)
             IN /\ s1 \cup s2 = {}
                /\ protein1_go' = Bound(s1)
                /\ protein2_go' = Bound(s2)
          /\ aln_read' = Append(aln_read, x)
    /\ score_pc' = "failed"
    /\ UNCHANGED <<go_one_dict, go_two_dict, unmappable_one, unmappable_two, score>>

\* both proteins are mapped: add the line's Jaccard coefficient
ScorePair ==
    /\ score_pc = "run"
    /\ Len(aln_read) < MaxAlnLines
    /\ \E x \in AlnLines :
          /\ Len(x) >= 2
          /\ Mappable(x[1], go_one_dict, go_two_dict)
          /\ Mappable(x[2], go_one_dict, go_two_dict)
          /\ LET s1 == Lookup(x[1], go_one_dict, go_two_dict)
                 s2 == Lookup(x[2], go_one_dict, go_two_dict)
             IN /\ s1 \cup s2 # {}
                /\ protein1_go' = Bound(s1)
                /\ protein2_go' = Bound(s2)
                /\ score' = score + LineScore(s1, s2)
          /\ aln_read' = Append(aln_read, x)
    /\ UNCHANGED <<go_one_dict, go_two_dict, unmappable_one, unmappable_two, score_pc>>

\* end of file: `return unmappable_one, unmappable_two, score`
ScoreReturn ==
    /\ score_pc = "run"
    /\ score_pc' = "done"
    /\ UNCHANGED <<go_one_dict, go_two_dict, aln_read, unmappable_one,
                   unmappable_two, score, protein1_go, protein2_go>>

-----------------------------------------------------------------------------
(* final_assignment_skeleton.compute_score, called with the dictionaries of   *)
(* NetworkAlignmentScorer.compute_score on the file that call has read        *)

Unbound == [bound |-> FALSE, terms |-> {}]

\* the if / elif / else of a protein: the local set after it, which is the
\* set of an earlier line (or still unbound) when the protein is in neither
\* dictionary
SkelBranch(p, one, two, local) ==
    IF Mappable(p, one, two) THEN Bound(Lookup(p, one, two)) ELSE local

\* the counter of a protein after its if / elif / else
SkelCount(p, one, two, n) == IF Mappable(p, one, two) THEN n ELSE n + 1

\* the line the skeleton reads next
SkelLine == aln_read[skel_read + 1]

SkelScoreIdle ==
    /\ skel_read = 0
    /\ skel_unmappable_one = 0
    /\ skel_unmappable_two = 0
    /\ skel_score = 0
    /\ skel_protein1_go = Unbound
    /\ skel_protein2_go = Unbound
    /\ skel_raised = "none"
    /\ skel_score_pc = "idle"

InitSkelScore ==
    /\ skel_read = 0
    /\ skel_unmappable_one = 0
    /\ skel_unmappable_two = 0
    /\ skel_score = 0
    /\ skel_protein1_go = Unbound
    /\ skel_protein2_go = Unbound
    /\ skel_raised = "none"
    /\ skel_score_pc = "run"

\* the file is at hand once compute_score has read it to its end or failed
\* on its last line
SkelHasLine ==
    /\ score_pc \in {"done", "failed"}
    /\ skel_score_pc = "run"
    /\ skel_read < Len(aln_read)

\* a line without tokens: `protein1 = x[0]` raises IndexError
SkelScoreRaiseNoToken ==
    /\ SkelHasLine
    /\ Len(SkelLine) = 0
    /\ skel_read' = skel_read + 1
    /\ skel_raised' = "IndexError"
    /\ skel_score_pc' = "failed"
    /\ UNCHANGED <<skel_unmappable_one, skel_unmappable_two, skel_score,
                   skel_protein1_go, skel_protein2_go>>

\* a one-token line: the first protein's branch, then `protein2 = x[1]`
\* raises IndexError
SkelScoreRaiseOneToken ==
    /\ SkelHasLine
    /\ Len(SkelLine) = 1
    /\ skel_read' = skel_read + 1
    /\ skel_protein1_go' =
          SkelBranch(SkelLine[1], go_one_dict, go_two_dict, skel_protein1_go)
    /\ skel_unmappable_one' =
          SkelCount(SkelLine[1], go_one_dict, go_two_dict, skel_unmappable_one)
    /\ skel_raised' = "IndexError"
    /\ skel_score_pc' = "failed"
    /\ UNCHANGED <<skel_unmappable_two, skel_score, skel_protein2_go>>

\* both branches, then a local set never assigned is read at the line score:
\* UnboundLocalError
SkelScoreRaiseUnbound ==
    /\ SkelHasLine
    /\ Len(SkelLine) >= 2
    /\ LET p1 == SkelBranch(SkelLine[1], go_one_dict, go_two_dict, skel_protein1_go)
           p2 == SkelBranch(SkelLine[2], go_one_dict, go_two_dict, skel_protein2_go)
       IN /\ ~p1.bound \/ ~p2.bound
          /\ skel_protein1_go' = p1
          /\ skel_protein2_go' = p2
    /\ skel_read' = skel_read + 1
    /\ skel_unmappable_one' =
          SkelCount(SkelLine[1], go_one_dict, go_two_dict, skel_unmappable_one)
    /\ skel_unmappable_two' =
          SkelCount(SkelLine[2], go_one_dict, go_two_dict, skel_unmappable_two)
    /\ skel_raised' = "UnboundLocalError"
    /\ skel_score_pc' = "failed"
    /\ UNCHANGED skel_score

\* both branches, then both local sets are empty: ZeroDivisionError
SkelScoreRaiseZeroDivision ==
    /\ SkelHasLine
    /\ Len(SkelLine) >= 2
    /\ LET p1 == SkelBranch(SkelLine[1], go_one_dict, go_two_dict, skel_protein1_go)
           p2 == SkelBranch(SkelLine[2], go_one_dict, go_two_dict, skel_protein2_go)
       IN /\ p1.bound /\ p2.bound
          /\ p1.terms \cup p2.terms = {}
          /\ skel_protein1_go' = p1
          /\ skel_protein2_go' = p2
    /\ skel_read' = skel_read + 1
    /\ skel_unmappable_one' =
          SkelCount(SkelLine[1], go_one_dict, go_two_dict, skel_unmappable_one)
    /\ skel_unmappable_two' =
          SkelCount(SkelLine[2], go_one_dict, go_two_dict, skel_unmappable_two)
    /\ skel_raised' = "ZeroDivisionError"
    /\ skel_score_pc' = "failed"
    /\ UNCHANGED skel_score

\* both branches, then the Jaccard coefficient of the two local sets is added
SkelScoreLine ==
    /\ SkelHasLine
    /\ Len(SkelLine) >= 2
    /\ LET p1 == SkelBranch(SkelLine[1], go_one_dict, go_two_dict, skel_protein1_go)
           p2 == SkelBranch(SkelLine[2], go_one_dict, go_two_dict, skel_protein2_go)
       IN /\ p1.bound /\ p2.bound
          /\ p1.terms \cup p2.terms # {}
          /\ skel_protein1_go' = p1
          /\ skel_protein2_go' = p2
          /\ skel_score' = skel_score + LineScore(p1.terms, p2.terms)
    /\ skel_read' = skel_read + 1
    /\ skel_unmappable_one' =
          SkelCount(SkelLine[1], go_one_dict, go_two_dict, skel_unmappable_one)
    /\ skel_unmappable_two' =
          SkelCount(SkelLine[2], go_one_dict, go_two_dict, skel_unmappable_two)
    /\ UNCHANGED <<skel_raised, skel_score_pc>>

\* end of file: `return unmappable_one, unmappable_two, score`
SkelScoreReturn ==
    /\ score_pc \in {"done", "failed"}
    /\ skel_score_pc = "run"
    /\ skel_read = Len(aln_read)
    /\ skel_score_pc' = "done"
    /\ UNCHANGED <<skel_read, skel_unmappable_one, skel_unmappable_two, skel_score,
                   skel_protein1_go, skel_protein2_go, skel_raised>>

-----------------------------------------------------------------------------
(* JaccardSimilarity.calculate *)

\* calculate without its two tests for empty sets
CalculateNoEmptyRule(s1, s2) ==
    LET intersection == Cardinality(s1 \cap s2)
        union == Cardinality(s1 \cup s2)
    IN IF union > 0 THEN (intersection * Scale) \div union ELSE 0

\* calculate with the first set's size in place of the union's size
CalculateOverFirst(s1, s2) ==
    IF s1 = {} /\ s2 = {} THEN Scale
    ELSE IF s1 = {} \/ s2 = {} THEN 0
    ELSE (Cardinality(s1 \cap s2) * Scale) \div Cardinality(s1)

\* JaccardSimilarity.calculate(go_terms_1, go_terms_2), scaled
Calculate(s1, s2) ==
    IF s1 = {} /\ s2 = {} THEN Scale
    ELSE IF s1 = {} \/ s2 = {} THEN 0
    ELSE LET intersection == Cardinality(s1 \cap s2)
             union == Cardinality(s1 \cup s2)
         IN IF union > 0 THEN (intersection * Scale) \div union ELSE 0

InitCalculate ==
    /\ go_terms_1 \in SUBSET Terms(NTerms)
    /\ go_terms_2 \in SUBSET Terms(NTerms)
    /\ jac_result = 0
    /\ jac_swapped = 0
    /\ jac_pc = "run"

\* the call calculate(go_terms_1, go_terms_2) returns
JacCalculate ==
    /\ jac_pc = "run"
    /\ jac_result' = Calculate(go_terms_1, go_terms_2)
    /\ jac_pc' = "done"
    /\ UNCHANGED <<go_terms_1, go_terms_2, jac_swapped>>

\* a second call, calculate(go_terms_2, go_terms_1), returns
JacCalculateSwapped ==
    /\ jac_pc = "done"
    /\ jac_swapped' = Calculate(go_terms_2, go_terms_1)
    /\ jac_pc' = "both"
    /\ UNCHANGED <<go_terms_1, go_terms_2, jac_result>>

-----------------------------------------------------------------------------
(* NetworkAlignmentScorer.score_alignment *)

\* the five files of a run, in the order in which the stages open them
InputFiles ==
    <<"mapping_file_1", "mapping_file_2", "go_file_1", "go_file_2", "alignment_file">>

FileNames == {InputFiles[i] : i \in DOMAIN InputFiles}

\* the stage after the one reading file f when the first GO file is read
\* between the two mapping files
StageAfterInterleaved(f) ==
    LET order == <<"mapping_file_1", "go_file_1", "mapping_file_2", "go_file_2",
                   "alignment_file">>
        i == CHOOSE j \in DOMAIN order : order[j] = f
    IN IF i < Len(order) THEN order[i + 1] ELSE "compute_score"

\* the stage that follows the stage reading file f
StageAfter(f) ==
    LET i == CHOOSE j \in DOMAIN InputFiles : InputFiles[j] = f
    IN IF i < Len(InputFiles) THEN InputFiles[i + 1] ELSE "compute_score"

\* the dictionaries get_go_terms returns: every set it stores holds a term
GoTermDicts == Dicts(Proteins, (SUBSET ScoreTerms) \ {{}})

\* the fraction n / d; Python's 0.0 is Fraction(0, 1)
Fraction(n, d) == [num |-> n, den |-> d]

\* `line.strip() and not line.startswith('#')`, for a line without leading blanks
CountsAsPair(x) == Len(x) > 0 /\ x[1][1] # "#"

\* `sum(1 for line in open(alignment_file) if ...)`
TotalPairs(read) == Cardinality({i \in DOMAIN read : CountsAsPair(read[i])})

NoResults ==
    [total_pairs |-> 0, unmappable_1 |-> 0, unmappable_2 |-> 0, scored_pairs |-> 0,
     total_score |-> 0, mean_score |-> Fraction(0, 1), coverage |-> Fraction(0, 1)]

InitAlignment ==
    /\ files \in SUBSET FileNames
    /\ align_pc = InputFiles[1]
    /\ raised = "none"
    /\ results = NoResults

\* the stage's file does not exist: get_mapping, get_go_terms or compute_score
\* raises FileNotFoundError
AlignNotFound ==
    /\ align_pc \in FileNames
    /\ align_pc \notin files
    /\ align_pc' = "failed"
    /\ raised' = "FileNotFoundError"
    /\ UNCHANGED <<files, results, scoreVars>>

\* get_mapping raises on a line of its file (a line without tokens)
AlignGetMappingRaise ==
    /\ align_pc \in {"mapping_file_1", "mapping_file_2"}
    /\ align_pc \in files
    /\ align_pc' = "failed"
    /\ raised' = "IndexError"
    /\ UNCHANGED <<files, results, scoreVars>>

\* get_mapping returns its list
AlignGetMappingReturn ==
    /\ align_pc \in {"mapping_file_1", "mapping_file_2"}
    /\ align_pc \in files
    /\ align_pc' = StageAfter(align_pc)
    /\ UNCHANGED <<files, raised, results, scoreVars>>

\* get_go_terms raises on a line of its file (a line of one token, or a line
\* without "GO:" token when `value` is not bound yet)
AlignGetGoTermsRaise ==
    /\ align_pc \in {"go_file_1", "go_file_2"}
    /\ align_pc \in files
    /\ align_pc' = "failed"
    /\ raised' \in {"IndexError", "UnboundLocalError"}
    /\ UNCHANGED <<files, results, scoreVars>>

\* get_go_terms returns go_dict_1, then go_dict_2
AlignGetGoTermsReturn ==
    /\ align_pc \in {"go_file_1", "go_file_2"}
    /\ align_pc \in files
    /\ IF align_pc = "go_file_1"
       THEN go_one_dict' \in GoTermDicts /\ go_two_dict' = go_two_dict
       ELSE go_two_dict' \in GoTermDicts /\ go_one_dict' = go_one_dict
    /\ align_pc' = StageAfter(align_pc)
    /\ UNCHANGED <<files, raised, results, aln_read, unmappable_one, unmappable_two,
                   score, protein1_go, protein2_go, score_pc>>

\* compute_score is called on an alignment file that exists
AlignComputeScore ==
    /\ align_pc = "alignment_file"
    /\ align_pc \in files
    /\ align_pc' = StageAfter(align_pc)
    /\ score_pc' = "run"
    /\ UNCHANGED <<files, raised, results, go_one_dict, go_two_dict, aln_read,
                   unmappable_one, unmappable_two, score, protein1_go, protein2_go>>

\* compute_score raised on a line with fewer than two tokens
AlignComputeScoreRaise ==
    /\ align_pc = "compute_score"
    /\ score_pc = "failed"
    /\ align_pc' = "failed"
    /\ raised' = "IndexError"
    /\ UNCHANGED <<files, results, scoreVars>>

\* compute_score returned: count the pairs, build and return the results
AlignResults ==
    /\ align_pc = "compute_score"
    /\ score_pc = "done"
    /\ LET total_pairs == TotalPairs(aln_read)
           scored_pairs == total_pairs - unmappable_one - unmappable_two
       IN results' =
            [total_pairs |-> total_pairs,
             unmappable_1 |-> unmappable_one,
             unmappable_2 |-> unmappable_two,
             scored_pairs |-> scored_pairs,
             total_score |-> score,
             mean_score |-> IF scored_pairs > 0 THEN Fraction(score, scored_pairs)
                            ELSE Fraction(0, 1),
             coverage |-> IF total_pairs > 0 THEN Fraction(scored_pairs, total_pairs)
                          ELSE Fraction(0, 1)]
    /\ align_pc' = "done"
    /\ UNCHANGED <<files, raised, scoreVars>>

-----------------------------------------------------------------------------
(* AlignmentMetrics.calculate_alignment_score *)

\* the metric names given to the method: "jaccard", and a name it does not
\* know ("cosine" and "resnik" are not part of this model)
Metrics == {"jaccard", "unknown"}

\* the pairs of an alignment_pairs list
AlignmentPairs == (Proteins \cup {<<"U">>}) \X (Proteins \cup {<<"U">>})

\* `d.get(k, set())`
Get(d, k) == IF k \in DOMAIN d THEN d[k] ELSE {}

RECURSIVE SumSeq(_)
SumSeq(seq) == IF seq = <<>> THEN 0 ELSE Head(seq) + SumSeq(Tail(seq))

SquaresOf(seq) == [i \in DOMAIN seq |-> seq[i] * seq[i]]

\* the k-th smallest element of a non-empty list
KthSmallest(seq, k) ==
    CHOOSE v \in {seq[i] : i \in DOMAIN seq} :
        /\ Cardinality({i \in DOMAIN seq : seq[i] < v}) < k
        /\ Cardinality({i \in DOMAIN seq : seq[i] <= v}) >= k

\* np.median: the middle element, or the mean of the two middle elements
Median(seq) ==
    LET n == Len(seq)
    IN IF n % 2 = 1 THEN Fraction(KthSmallest(seq, (n + 1) \div 2), 1)
       ELSE Fraction(KthSmallest(seq, n \div 2) + KthSmallest(seq, n \div 2 + 1), 2)

\* the square of np.std: the mean of the squares minus the square of the mean
Variance(seq) ==
    LET n == Len(seq)
    IN Fraction(n * SumSeq(SquaresOf(seq)) - SumSeq(seq) * SumSeq(seq), n * n)

InitMetrics ==
    /\ go_annotations_1 \in AnnotationMaps
    /\ go_annotations_2 \in AnnotationMaps
    /\ metric \in Metrics
    /\ pairs_read = <<>>
    /\ scores = <<>>
    /\ unmappable_1 = 0
    /\ unmappable_2 = 0
    /\ metrics_result = EmptyDict
    /\ metrics_pc = "run"

\* a pair with an empty go_terms_1 or go_terms_2: count, do not score
MetricsUnmappable ==
    /\ metrics_pc = "run"
    /\ Len(pairs_read) < MaxPairs
    /\ \E pair \in AlignmentPairs :
          LET terms_1 == Get(go_annotations_1, pair[1])
              terms_2 == Get(go_annotations_2, pair[2])
          IN /\ terms_1 = {} \/ terms_2 = {}
             /\ unmappable_1' = IF terms_1 = {} THEN unmappable_1 + 1 ELSE unmappable_1
             /\ unmappable_2' = IF terms_2 = {} THEN unmappable_2 + 1 ELSE unmappable_2
             /\ pairs_read' = Append(pairs_read, pair)
    /\ UNCHANGED <<go_annotations_1, go_annotations_2, metric, scores,
                   metrics_result, metrics_pc>>

\* a pair with two non-empty sets, metric "jaccard": append its score
MetricsScorePair ==
    /\ metrics_pc = "run"
    /\ Len(pairs_read) < MaxPairs
    /\ metric = "jaccard"
    /\ \E pair \in AlignmentPairs :
          LET terms_1 == Get(go_annotations_1, pair[1])
              terms_2 == Get(go_annotations_2, pair[2])
          IN /\ terms_1 # {} /\ terms_2 # {}
             /\ scores' = Append(scores, Calculate(terms_1, terms_2))
             /\ pairs_read' = Append(pairs_read, pair)
    /\ UNCHANGED <<go_annotations_1, go_annotations_2, metric, unmappable_1,
                   unmappable_2, metrics_result, metrics_pc>>

\* a pair with two non-empty sets, unknown metric: `raise ValueError`
MetricsRaiseUnknown ==
    /\ metrics_pc = "run"
    /\ Len(pairs_read) < MaxPairs
    /\ metric # "jaccard"
    /\ \E pair \in AlignmentPairs :
          /\ Get(go_annotations_1, pair[1]) # {}
          /\ Get(go_annotations_2, pair[2]) # {}
          /\ pairs_read' = Append(pairs_read, pair)
    /\ metrics_pc' = "failed"
    /\ UNCHANGED <<go_annotations_1, go_annotations_2, metric, scores, unmappable_1,
                   unmappable_2, metrics_result>>

\* the keys of the dictionary that core get_alignment_quality_report reads
ReportFields ==
    {"total_pairs", "scored_pairs", "coverage", "unmappable_1", "unmappable_2",
     "mean_score", "median_score", "std_score", "min_score", "max_score"}

\* end of the list, no score: the short dictionary is returned
MetricsReturnNoScores ==
    /\ metrics_pc = "run"
    /\ scores = <<>>
    /\ metrics_result' =
          [mean_score |-> Fraction(0, 1),
           median_score |-> Fraction(0, 1),
           std_score |-> Fraction(0, 1),
           total_pairs |-> Len(pairs_read),
           scored_pairs |-> 0,
           unmappable_1 |-> unmappable_1,
           unmappable_2 |-> unmappable_2]
    /\ metrics_pc' = "done"
    /\ UNCHANGED <<go_annotations_1, go_annotations_2, metric, pairs_read, scores,
                   unmappable_1, unmappable_2>>

\* end of the list, some scores: the full dictionary is returned (std_score
\* is kept as its square)
MetricsReturn ==
    /\ metrics_pc = "run"
    /\ scores # <<>>
    /\ metrics_result' =
          [mean_score |-> Fraction(SumSeq(scores), Len(scores)),
           median_score |-> Median(scores),
           std_score |-> Variance(scores),
           min_score |-> KthSmallest(scores, 1),
           max_score |-> KthSmallest(scores, Len(scores)),
           total_pairs |-> Len(pairs_read),
           scored_pairs |-> Len(scores),
           unmappable_1 |-> unmappable_1,
           unmappable_2 |-> unmappable_2,
           coverage |-> IF pairs_read # <<>> THEN Fraction(Len(scores), Len(pairs_read))
                        ELSE Fraction(0, 1)]
    /\ metrics_pc' = "done"
    /\ UNCHANGED <<go_annotations_1, go_annotations_2, metric, pairs_read, scores,
                   unmappable_1, unmappable_2>>

-----------------------------------------------------------------------------
(* core NetworkAlignmentScorer.load_data, with MappingParser.parse_mapping_file *)
(* and GOAnalyzer.parse_go_file.  A mapping file is given by the columns the   *)
(* parser finds in it: the list, in column order, of the identifier types     *)
(* other than the Ensembl column, each with its identifier -> Ensembl id      *)
(* dictionary.                                                                 *)

CoreColumns == {"SYM"}

CoreTables ==
    {<<>>} \cup {<<[col |-> c, ids |-> d]>> : c \in CoreColumns,
                                              d \in Dicts(GoQueries, Canon)}

\* the lines of the GO files
CoreGoLines ==
    {[comment |-> TRUE, toks |-> <<>>],
     [comment |-> FALSE, toks |-> <<<<"U">>>>],
     [comment |-> FALSE, toks |-> <<<<"U">>, <<"X">>>>],
     [comment |-> FALSE, toks |-> <<<<"U">>, <<"X">>, <<"G", "O", ":", "1">>>>],
     [comment |-> FALSE,
      toks |-> <<<<"U">>, <<"X">>, <<"G", "O", ":", "2", "O">>, <<"G", "O", ":", "1">>>>]}

CoreGoFiles == ListsUpTo(CoreGoLines, MaxCoreLines)

\* the lines of the alignment file
CoreAlnLines == {<<>>, <<<<"U">>>>, <<<<"E">>, <<"F">>>>, <<<<"#">>, <<"E">>>>}

CoreAlnFiles == ListsUpTo(CoreAlnLines, MaxCoreLines)

\* `reverse_mapping`: each Ensembl id with the set of identifiers mapped to it
ReverseMapping(ids) ==
    [e \in {ids[k] : k \in DOMAIN ids} |-> {k \in DOMAIN ids : ids[k] = e}]

\* `self.reverse_mappings[col] = reverse_mapping` for every column of the table
RECURSIVE UpdateReverse(_, _)
UpdateReverse(rev, table) ==
    IF table = <<>> THEN rev
    ELSE UpdateReverse(DictUpdate(rev, Head(table).col, ReverseMapping(Head(table).ids)),
                       Tail(table))

\* a GOAnalyzer after __init__
NewAnalyzer ==
    [go_annotations |-> EmptyDict, protein_stats |-> EmptyDict,
     go_term_stats |-> EmptyDict]

\* the GO terms of a line: `part[len(go_prefix):]` of every "GO:" token
RECURSIVE GoTermsOf(_)
GoTermsOf(parts) ==
    IF parts = <<>> THEN <<>>
    ELSE IF StartsWithGO(Head(parts))
         THEN <<SubSeq(Head(parts), 4, Len(Head(parts)))>> \o GoTermsOf(Tail(parts))
         ELSE GoTermsOf(Tail(parts))

\* the loop over mapping_parser.mappings.keys(): the Ensembl id of the first
\* identifier type that knows protein_id, or "" (no identifier type knows it)
RECURSIVE EnsemblIdOf(_, _)
EnsemblIdOf(table, protein_id) ==
    IF table = <<>> THEN <<>>
    ELSE IF protein_id \in DOMAIN Head(table).ids /\ Head(table).ids[protein_id] # <<>>
         THEN Head(table).ids[protein_id]
         ELSE EnsemblIdOf(Tail(table), protein_id)

\* d[k] += n of a defaultdict(int)
Increment(d, k, n) == DictUpdate(d, k, (IF k \in DOMAIN d THEN d[k] ELSE 0) + n)

\* the loop `for go_term in go_terms` of parse_go_file
RECURSIVE AddGoTerms(_, _, _)
AddGoTerms(az, ensembl_id, go_terms) ==
    IF go_terms = <<>> THEN az
    ELSE AddGoTerms(
            [az EXCEPT !.go_annotations =
                          DictUpdate(@, ensembl_id,
                                     (IF ensembl_id \in DOMAIN @ THEN @[ensembl_id] ELSE {})
                                         \cup {Head(go_terms)}),
                       !.go_term_stats = Increment(@, Head(go_terms), 1)],
            ensembl_id, Tail(go_terms))

\* the loop `for line in f` of parse_go_file, with the mappings of the parser
RECURSIVE ParseGoLines(_, _, _)
ParseGoLines(az, lines, table) ==
    IF lines = <<>> THEN az
    ELSE LET parts == Head(lines).toks
             go_terms == GoTermsOf(parts)
             ensembl_id == EnsemblIdOf(table, parts[2])
         IN IF Head(lines).comment \/ Len(parts) < 2 \/ go_terms = <<>>
               \/ ensembl_id = <<>>
            THEN ParseGoLines(az, Tail(lines), table)
            ELSE ParseGoLines(
                    [AddGoTerms(az, ensembl_id, go_terms)
                        EXCEPT !.protein_stats = Increment(@, ensembl_id, Len(go_terms))],
                    Tail(lines), table)

\* GOAnalyzer.parse_go_file on a new analyzer: the analyzer after the call
ParseGoFile(lines, table) == ParseGoLines(NewAnalyzer, lines, table)

\* _parse_alignment_file
RECURSIVE ParseAlignmentFile(_)
ParseAlignmentFile(lines) ==
    IF lines = <<>> THEN <<>>
    ELSE IF CountsAsPair(Head(lines)) /\ Len(Head(lines)) >= 2
         THEN <<<<Head(lines)[1], Head(lines)[2]>>>> \o ParseAlignmentFile(Tail(lines))
         ELSE ParseAlignmentFile(Tail(lines))

\* the species a stage of load_data works for
SpeciesOf(pc) == IF pc \in {"mapping_file_1", "go_file_1"} THEN "species1" ELSE "species2"

LoadIdle ==
    /\ load_go_1 = <<>>
    /\ load_go_2 = <<>>
    /\ parser_mappings = <<>>
    /\ parser_reverse = EmptyDict
    /\ analyzer = NewAnalyzer
    /\ core_mappings = EmptyDict
    /\ core_go_annotations = EmptyDict
    /\ core_alignments = EmptyDict
    /\ load_raised = "none"
    /\ load_pc = "idle"

InitLoadData ==
    /\ load_go_1 = <<>>
    /\ load_go_2 = <<>>
    /\ parser_mappings = <<>>
    /\ parser_reverse = EmptyDict
    /\ analyzer = NewAnalyzer
    /\ core_mappings = EmptyDict
    /\ core_go_annotations = EmptyDict
    /\ core_alignments = EmptyDict
    /\ load_raised = "none"
    /\ load_pc = "mapping_file_1"

\* the file of the stage does not exist
LoadNotFound ==
    /\ load_pc \in FileNames
    /\ load_raised' = "FileNotFoundError"
    /\ load_pc' = "failed"
    /\ UNCHANGED <<load_go_1, load_go_2, parser_mappings, parser_reverse, analyzer,
                   core_mappings, core_go_annotations, core_alignments>>

\* the mapping file has no Ensembl_ID column
LoadNoEnsemblColumn ==
    /\ load_pc \in {"mapping_file_1", "mapping_file_2"}
    /\ load_raised' = "ValueError"
    /\ load_pc' = "failed"
    /\ UNCHANGED <<load_go_1, load_go_2, parser_mappings, parser_reverse, analyzer,
                   core_mappings, core_go_annotations, core_alignments>>

\* `self.mappings[species] = self.mapping_parser.parse_mapping_file(file)`
LoadParseMapping ==
    /\ load_pc \in {"mapping_file_1", "mapping_file_2"}
    /\ \E table \in CoreTables :
          /\ parser_mappings' = table
          /\ parser_reverse' = UpdateReverse(parser_reverse, table)
          /\ core_mappings' = DictUpdate(core_mappings, SpeciesOf(load_pc), table)
    /\ load_pc' = StageAfter(load_pc)
    /\ UNCHANGED <<load_go_1, load_go_2, analyzer, core_go_annotations,
                   core_alignments, load_raised>>

\* `self.go_annotations[species] = self.go_analyzer.parse_go_file(file,
\* self.mapping_parser)`, and after the first file `self.go_analyzer = GOAnalyzer()`
LoadParseGo ==
    /\ load_pc \in {"go_file_1", "go_file_2"}
    /\ \E lines \in CoreGoFiles :
          LET parsed == ParseGoFile(lines, parser_mappings)
          IN /\ core_go_annotations' =
                    DictUpdate(core_go_annotations, SpeciesOf(load_pc),
                               parsed.go_annotations)
             /\ IF load_pc = "go_file_1"
                THEN /\ load_go_1' = lines
                     /\ analyzer' = NewAnalyzer
                     /\ UNCHANGED load_go_2
                ELSE /\ load_go_2' = lines
                     /\ analyzer' = parsed
                     /\ UNCHANGED load_go_1
    /\ load_pc' = StageAfter(load_pc)
    /\ UNCHANGED <<parser_mappings, parser_reverse, core_mappings, core_alignments,
                   load_raised>>

\* `self.alignments["main"] = self._parse_alignment_file(alignment_file)`
LoadParseAlignment ==
    /\ load_pc = "alignment_file"
    /\ \E lines \in CoreAlnFiles :
          core_alignments' = DictUpdate(core_alignments, "main", ParseAlignmentFile(lines))
    /\ load_pc' = "done"
    /\ UNCHANGED <<load_go_1, load_go_2, parser_mappings, parser_reverse, analyzer,
                   core_mappings, core_go_annotations, load_raised>>

-----------------------------------------------------------------------------
(* core NetworkAlignmentScorer.filter_high_quality_alignments, with           *)
(* get_detailed_pair_scores, called after load_data has returned              *)

\* the thresholds given, times Scale: 0, 0.5 (the default) and 1
Thresholds == {0, Scale \div 2, Scale}

\* self.alignments.get("main")
MainAlignment == Get(core_alignments, "main")

\* the rows with similarity_score >= threshold, as (protein1, protein2)
RECURSIVE HighQuality(_, _)
HighQuality(rows, threshold) ==
    IF rows = <<>> THEN <<>>
    ELSE IF Head(rows).similarity_score >= threshold
         THEN <<<<Head(rows).protein1, Head(rows).protein2>>>>
                  \o HighQuality(Tail(rows), threshold)
         ELSE HighQuality(Tail(rows), threshold)

FilterIdle ==
    /\ filter_threshold = 0
    /\ filter_metric = "jaccard"
    /\ detailed_scores = <<>>
    /\ high_quality = <<>>
    /\ filter_raised = "none"
    /\ filter_pc = "idle"

\* the call, with alignment data loaded
FilterCall ==
    /\ load_pc = "done"
    /\ filter_pc = "idle"
    /\ MainAlignment # <<>>
    /\ filter_threshold' \in Thresholds
    /\ filter_metric' \in Metrics
    /\ filter_pc' = "scores"
    /\ UNCHANGED <<detailed_scores, high_quality, filter_raised>>

\* the call, with no alignment pair loaded: ValueError
FilterRaiseNoData ==
    /\ load_pc = "done"
    /\ filter_pc = "idle"
    /\ MainAlignment = <<>>
    /\ filter_threshold' \in Thresholds
    /\ filter_metric' \in Metrics
    /\ filter_raised' = "ValueError"
    /\ filter_pc' = "failed"
    /\ UNCHANGED <<detailed_scores, high_quality>>

\* a pair is scored: each protein's terms in its own species' annotation map
FilterScorePair ==
    /\ filter_pc = "scores"
    /\ Len(detailed_scores) < Len(MainAlignment)
    /\ filter_metric = "jaccard"
    /\ LET pair == MainAlignment[Len(detailed_scores) + 1]
           terms_1 == Get(core_go_annotations["species1"], pair[1])
           terms_2 == Get(core_go_annotations["species2"], pair[2])
       IN detailed_scores' =
             Append(detailed_scores,
                    [protein1 |-> pair[1],
                     protein2 |-> pair[2],
                     go_terms_1_count |-> Cardinality(terms_1),
                     go_terms_2_count |-> Cardinality(terms_2),
                     common_terms |-> Cardinality(terms_1 \cap terms_2),
                     union_terms |-> Cardinality(terms_1 \cup terms_2),
                     similarity_score |-> Calculate(terms_1, terms_2),
                     has_annotation_1 |-> terms_1 # {},
                     has_annotation_2 |-> terms_2 # {}])
    /\ UNCHANGED <<filter_threshold, filter_metric, high_quality, filter_raised,
                   filter_pc>>

\* a pair under a metric that is not known: ValueError
FilterRaiseUnknown ==
    /\ filter_pc = "scores"
    /\ Len(detailed_scores) < Len(MainAlignment)
    /\ filter_metric = "unknown"
    /\ filter_raised' = "ValueError"
    /\ filter_pc' = "failed"
    /\ UNCHANGED <<filter_threshold, filter_metric, detailed_scores, high_quality>>

\* every pair is scored: the rows at or above the threshold are returned
FilterReturn ==
    /\ filter_pc = "scores"
    /\ Len(detailed_scores) = Len(MainAlignment)
    /\ high_quality' = HighQuality(detailed_scores, filter_threshold)
    /\ filter_pc' = "done"
    /\ UNCHANGED <<filter_threshold, filter_metric, detailed_scores, filter_raised>>

-----------------------------------------------------------------------------
(* The floats of compute_score.  `score` and `line_score` are Python floats: *)
(* IEEE 754 binary64 numbers, rounded to nearest, ties to even.  A positive   *)
(* float is the list of its MantissaBits significand bits, the leading bit 1 *)
(* first, with the exponent of that leading bit; the values of compute_score *)
(* are far from overflow and from the subnormal range.                       *)

MantissaBits == 53

\* 0.0
FloatZero == [zero |-> TRUE, exp |-> 0, bits |-> <<>>]

\* n zero bits
ZeroBits(n) == [i \in 1..n |-> 0]

\* the sum of the bit lists a and b (of the same length) up to position i,
\* with carry c into position i: one bit longer, the carry out first
RECURSIVE AddBits(_, _, _, _)
AddBits(a, b, i, c) ==
    IF i = 0 THEN <<c>>
    ELSE IF a[i] + b[i] + c >= 2
         THEN AddBits(a, b, i - 1, 1) \o <<a[i] + b[i] + c - 2>>
         ELSE AddBits(a, b, i - 1, 0) \o <<a[i] + b[i] + c>>

\* the float nearest to the number with bit list s (s[1] = 1, leading bit of
\* exponent e): the bits after the significand decide, a tie goes to even
RoundToFloat(s, e) ==
    IF Len(s) <= MantissaBits
    THEN [zero |-> FALSE, exp |-> e, bits |-> s \o ZeroBits(MantissaBits - Len(s))]
    ELSE LET keep == SubSeq(s, 1, MantissaBits)
             half == s[MantissaBits + 1] = 1
             more == \E i \in (MantissaBits + 2)..Len(s) : s[i] = 1
             up == half /\ (more \/ keep[MantissaBits] = 1)
             next == AddBits(keep, ZeroBits(MantissaBits), MantissaBits, 1)
         IN IF ~up THEN [zero |-> FALSE, exp |-> e, bits |-> keep]
            ELSE IF next[1] = 1
                 THEN [zero |-> FALSE, exp |-> e + 1,
                       bits |-> SubSeq(next, 1, MantissaBits)]
                 ELSE [zero |-> FALSE, exp |-> e, bits |-> Tail(next)]

\* the first k bits of r / d for 0 <= r < d, then one bit more that is 1 when
\* a remainder is left
RECURSIVE QuotientBits(_, _, _)
QuotientBits(r, d, k) ==
    IF k = 0 THEN <<IF r > 0 THEN 1 ELSE 0>>
    ELSE IF 2 * r >= d THEN <<1>> \o QuotientBits(2 * r - d, d, k - 1)
         ELSE <<0>> \o QuotientBits(2 * r, d, k - 1)

\* the exponent of the leading bit of n / d, and n scaled into d..(2d - 1)
RECURSIVE Normalized(_, _, _)
Normalized(n, d, e) ==
    IF n >= 2 * d THEN Normalized(n, 2 * d, e + 1)
    ELSE IF n < d THEN Normalized(2 * n, d, e - 1)
    ELSE [num |-> n, den |-> d, exp |-> e]

\* the float n / d of two ints (d > 0), as Python's true division gives it
FloatDiv(n, d) ==
    IF n = 0 THEN FloatZero
    ELSE LET q == Normalized(n, d, 0)
         IN RoundToFloat(<<1>> \o QuotientBits(q.num - q.den, q.den, MantissaBits + 1),
                         q.exp)

\* the float a + b of two floats that are not negative
FloatAdd(a, b) ==
    IF a.zero THEN b
    ELSE IF b.zero THEN a
    ELSE LET hi == IF a.exp >= b.exp THEN a ELSE b
             lo == IF a.exp >= b.exp THEN b ELSE a
             shift == hi.exp - lo.exp
             sum == AddBits(hi.bits \o ZeroBits(shift), ZeroBits(shift) \o lo.bits,
                            MantissaBits + shift, 0)
         IN IF sum[1] = 1 THEN RoundToFloat(sum, hi.exp + 1)
            ELSE RoundToFloat(Tail(sum), hi.exp)

-----------------------------------------------------------------------------
(* NetworkAlignmentScorer.compute_score called on an alignment file and then *)
(* on a file with the same lines in another order, its score kept as the     *)
(* float it is.  No set of the annotation maps is empty, so the division     *)
(* cannot fail.                                                               *)

\* the annotation maps of the two calls
PermMapOne ==
    (<<"A">> :> {<<"1">>}) @@ (<<"B">> :> {<<"1">>, <<"2">>})
        @@ (<<"C">> :> {<<"1">>, <<"2">>, <<"3">>})
PermMapTwo == (<<"D">> :> {<<"1">>, <<"2">>, <<"3">>})

\* the lines of the alignment file (protein U has no annotation)
PermLines ==
    {<<<<"A">>, <<"D">>>>, <<<<"B">>, <<"D">>>>, <<<<"C">>, <<"D">>>>,
     <<<<"U">>, <<"D">>>>, <<<<"A">>, <<"U">>>>, <<<<"A">>>>}

\* what a call gives back: the returned triple, or nothing when it raised
Returned(one, two, sc) ==
    [raised |-> FALSE, unmappable_one |-> one, unmappable_two |-> two, score |-> sc]
Raised == [raised |-> TRUE, unmappable_one |-> 0, unmappable_two |-> 0,
           score |-> FloatZero]

\* `score = line_score`: the last line's score in place of the sum
KeepLineScore(sc, line_score) == line_score

\* `score = score + line_score`
AddLineScore(sc, line_score) == FloatAdd(sc, line_score)

\* len(s1.intersection(s2)) / len(s1.union(s2)) as a float
FloatLineScore(s1, s2) == FloatDiv(Cardinality(s1 \cap s2), Cardinality(s1 \cup s2))

\* the file of the running call and the line it reads next
PermRunning == IF perm_pc = "first" THEN perm_file ELSE perm_order
PermLine == PermRunning[perm_read + 1]

PermHasLine ==
    /\ perm_pc \in {"first", "second"}
    /\ perm_read < Len(PermRunning)

\* the running call ends with the outcome r: the first call is followed by
\* the choice of the second file, the second call ends the run
PermEnd(r) ==
    /\ IF perm_pc = "first"
       THEN perm_first' = r /\ perm_second' = perm_second /\ perm_pc' = "permute"
       ELSE perm_second' = r /\ perm_first' = perm_first /\ perm_pc' = "done"

PermIdle ==
    /\ perm_file = <<>>
    /\ perm_order = <<>>
    /\ perm_read = 0
    /\ perm_unmappable_one = 0
    /\ perm_unmappable_two = 0
    /\ perm_score = FloatZero
    /\ perm_first = Raised
    /\ perm_second = Raised
    /\ perm_pc = "idle"

InitPermuted ==
    /\ perm_file \in ListsUpTo(PermLines, MaxPermLines)
    /\ perm_order = <<>>
    /\ perm_read = 0
    /\ perm_unmappable_one = 0
    /\ perm_unmappable_two = 0
    /\ perm_score = FloatZero
    /\ perm_first = Raised
    /\ perm_second = Raised
    /\ perm_pc = "first"

\* the first protein is in neither dictionary: count it and `continue`
PermUnmappableOne ==
    /\ PermHasLine
    /\ ~Mappable(PermLine[1], PermMapOne, PermMapTwo)
    /\ perm_read' = perm_read + 1
    /\ perm_unmappable_one' = perm_unmappable_one + 1
    /\ UNCHANGED <<perm_file, perm_order, perm_unmappable_two, perm_score,
                   perm_first, perm_second, perm_pc>>

\* a one-token line whose protein is mapped: `protein2 = x[1]` raises IndexError
PermRaiseOneToken ==
    /\ PermHasLine
    /\ Len(PermLine) = 1
    /\ Mappable(PermLine[1], PermMapOne, PermMapTwo)
    /\ perm_read' = perm_read + 1
    /\ PermEnd(Raised)
    /\ UNCHANGED <<perm_file, perm_order, perm_unmappable_one, perm_unmappable_two,
                   perm_score>>

\* the second protein is in neither dictionary: count it and `continue`
PermUnmappableTwo ==
    /\ PermHasLine
    /\ Len(PermLine) >= 2
    /\ Mappable(PermLine[1], PermMapOne, PermMapTwo)
    /\ ~Mappable(PermLine[2], PermMapOne, PermMapTwo)
    /\ perm_read' = perm_read + 1
    /\ perm_unmappable_two' = perm_unmappable_two + 1
    /\ UNCHANGED <<perm_file, perm_order, perm_unmappable_one, perm_score,
                   perm_first, perm_second, perm_pc>>

\* both proteins are mapped: the line's Jaccard coefficient is added
PermScorePair ==
    /\ PermHasLine
    /\ Len(PermLine) >= 2
    /\ Mappable(PermLine[1], PermMapOne, PermMapTwo)
    /\ Mappable(PermLine[2], PermMapOne, PermMapTwo)
    /\ perm_read' = perm_read + 1
    /\ perm_score' =
          AddLineScore(perm_score,
                       FloatLineScore(Lookup(PermLine[1], PermMapOne, PermMapTwo),
                                      Lookup(PermLine[2], PermMapOne, PermMapTwo)))
    /\ UNCHANGED <<perm_file, perm_order, perm_unmappable_one, perm_unmappable_two,
                   perm_first, perm_second, perm_pc>>

\* end of file: `return unmappable_one, unmappable_two, score`
PermReturn ==
    /\ perm_pc \in {"first", "second"}
    /\ perm_read = Len(PermRunning)
    /\ PermEnd(Returned(perm_unmappable_one, perm_unmappable_two, perm_score))
    /\ UNCHANGED <<perm_file, perm_order, perm_read, perm_unmappable_one,
                   perm_unmappable_two, perm_score>>

\* the second file: the lines of the first in any order; the second call starts
PermCallPermuted ==
    /\ perm_pc = "permute"
    /\ \E q \in Permutations(DOMAIN perm_file) :
          perm_order' = [i \in DOMAIN perm_file |-> perm_file[q[i]]]
    /\ perm_read' = 0
    /\ perm_unmappable_one' = 0
    /\ perm_unmappable_two' = 0
    /\ perm_score' = FloatZero
    /\ perm_pc' = "second"
    /\ UNCHANGED <<perm_file, perm_first, perm_second>>

-----------------------------------------------------------------------------
(* Idle values of the other functions' variables *)

GoIdle ==
    /\ go_line = [comment |-> TRUE, toks |-> <<>>]
    /\ value = [bound |-> FALSE, term |-> <<>>]
    /\ go_dict = EmptyDict
    /\ go_pc = "idle"

ScoreIdle ==
    /\ go_one_dict = EmptyDict
    /\ go_two_dict = EmptyDict
    /\ aln_read = <<>>
    /\ unmappable_one = 0
    /\ unmappable_two = 0
    /\ score = 0
    /\ protein1_go = [bound |-> FALSE, terms |-> {}]
    /\ protein2_go = [bound |-> FALSE, terms |-> {}]
    /\ score_pc = "idle"

JacIdle ==
    /\ go_terms_1 = {}
    /\ go_terms_2 = {}
    /\ jac_result = 0
    /\ jac_swapped = 0
    /\ jac_pc = "idle"

AlignIdle ==
    /\ files = {}
    /\ align_pc = "idle"
    /\ raised = "none"
    /\ results = NoResults

MetricsIdle ==
    /\ go_annotations_1 = EmptyDict
    /\ go_annotations_2 = EmptyDict
    /\ metric = "jaccard"
    /\ pairs_read = <<>>
    /\ scores = <<>>
    /\ unmappable_1 = 0
    /\ unmappable_2 = 0
    /\ metrics_result = EmptyDict
    /\ metrics_pc = "idle"

-----------------------------------------------------------------------------
(* Specification of get_mapping *)

InitMap == InitMapping /\ GoIdle /\ ScoreIdle /\ JacIdle /\ AlignIdle /\ MetricsIdle /\ LoadIdle /\ SkelScoreIdle /\ FilterIdle
    /\ PermIdle

NextMap ==
    \/ MapSkipHeader /\ UNCHANGED notMap
    \/ MapRaise /\ UNCHANGED notMap
    \/ MapFillLine /\ UNCHANGED notMap
    \/ MapReturn /\ UNCHANGED notMap
    \/ MapCallOther /\ UNCHANGED notMap
    \/ MapCallAgain /\ UNCHANGED notMap
    \/ SkelCallGetMapping /\ UNCHANGED notMap

SpecMap == InitMap /\ [][NextMap]_vars

-----------------------------------------------------------------------------
(* Specification of get_go_terms *)

InitGo == MapIdle /\ InitGoTerms /\ ScoreIdle /\ JacIdle /\ AlignIdle /\ MetricsIdle /\ LoadIdle /\ SkelScoreIdle /\ FilterIdle
    /\ PermIdle

NextGo ==
    \/ GoSkipComment /\ UNCHANGED notGo
    \/ GoRaiseIndex /\ UNCHANGED notGo
    \/ GoRaiseUnbound /\ UNCHANGED notGo
    \/ GoProcessLine /\ UNCHANGED notGo
    \/ GoReturn /\ UNCHANGED notGo

SpecGo == InitGo /\ [][NextGo]_vars

-----------------------------------------------------------------------------
(* Specification of compute_score *)

InitSc ==
    /\ MapIdle /\ mapping_list = <<>> /\ GoIdle /\ InitScore /\ JacIdle
    /\ AlignIdle /\ MetricsIdle /\ LoadIdle /\ SkelScoreIdle /\ FilterIdle
    /\ PermIdle

NextSc ==
    \/ ScoreRaiseNoToken /\ UNCHANGED notScore
    \/ ScoreUnmappableOne /\ UNCHANGED notScore
    \/ ScoreRaiseOneToken /\ UNCHANGED notScore
    \/ ScoreUnmappableTwo /\ UNCHANGED notScore
    \/ ScoreRaiseZeroDivision /\ UNCHANGED notScore
    \/ ScorePair /\ UNCHANGED notScore
    \/ ScoreReturn /\ UNCHANGED notScore

SpecScore == InitSc /\ [][NextSc]_vars

-----------------------------------------------------------------------------
(* Specification of JaccardSimilarity.calculate *)

InitJac ==
    /\ MapIdle /\ mapping_list = <<>> /\ GoIdle /\ ScoreIdle /\ InitCalculate
    /\ AlignIdle /\ MetricsIdle /\ LoadIdle /\ SkelScoreIdle /\ FilterIdle
    /\ PermIdle

NextJac ==
    \/ JacCalculate /\ UNCHANGED notJac
    \/ JacCalculateSwapped /\ UNCHANGED notJac

SpecJaccard == InitJac /\ [][NextJac]_vars

-----------------------------------------------------------------------------
(* Specification of score_alignment.  The sets of go_dict_1 and go_dict_2  *)
(* are never empty, so the division of compute_score cannot fail here.     *)

InitAlign ==
    /\ MapIdle /\ mapping_list = <<>> /\ GoIdle /\ ScoreIdle /\ JacIdle
    /\ InitAlignment /\ MetricsIdle /\ LoadIdle /\ SkelScoreIdle /\ FilterIdle
    /\ PermIdle

NextAlign ==
    \/ AlignNotFound /\ UNCHANGED notAlign
    \/ AlignGetMappingRaise /\ UNCHANGED notAlign
    \/ AlignGetMappingReturn /\ UNCHANGED notAlign
    \/ AlignGetGoTermsRaise /\ UNCHANGED notAlign
    \/ AlignGetGoTermsReturn /\ UNCHANGED notAlign
    \/ AlignComputeScore /\ UNCHANGED notAlign
    \/ ScoreRaiseNoToken /\ UNCHANGED notScore
    \/ ScoreUnmappableOne /\ UNCHANGED notScore
    \/ ScoreRaiseOneToken /\ UNCHANGED notScore
    \/ ScoreUnmappableTwo /\ UNCHANGED notScore
    \/ ScorePair /\ UNCHANGED notScore
    \/ ScoreReturn /\ UNCHANGED notScore
    \/ AlignComputeScoreRaise /\ UNCHANGED notAlign
    \/ AlignResults /\ UNCHANGED notAlign

SpecAlign == InitAlign /\ [][NextAlign]_vars

-----------------------------------------------------------------------------
(* Specification of AlignmentMetrics.calculate_alignment_score *)

InitMet ==
    /\ MapIdle /\ mapping_list = <<>> /\ GoIdle /\ ScoreIdle /\ JacIdle
    /\ AlignIdle /\ InitMetrics /\ LoadIdle /\ SkelScoreIdle /\ FilterIdle
    /\ PermIdle

NextMet ==
    \/ MetricsUnmappable /\ UNCHANGED notMetrics
    \/ MetricsScorePair /\ UNCHANGED notMetrics
    \/ MetricsRaiseUnknown /\ UNCHANGED notMetrics
    \/ MetricsReturnNoScores /\ UNCHANGED notMetrics
    \/ MetricsReturn /\ UNCHANGED notMetrics

SpecMetrics == InitMet /\ [][NextMet]_vars

-----------------------------------------------------------------------------
(* Specification of compute_score followed by the skeleton's compute_score *)

InitSkel ==
    /\ MapIdle /\ mapping_list = <<>> /\ GoIdle /\ InitScore /\ JacIdle
    /\ AlignIdle /\ MetricsIdle /\ LoadIdle /\ InitSkelScore /\ FilterIdle
    /\ PermIdle

NextSkel ==
    \/ ScoreRaiseNoToken /\ UNCHANGED notScore
    \/ ScoreUnmappableOne /\ UNCHANGED notScore
    \/ ScoreRaiseOneToken /\ UNCHANGED notScore
    \/ ScoreUnmappableTwo /\ UNCHANGED notScore
    \/ ScoreRaiseZeroDivision /\ UNCHANGED notScore
    \/ ScorePair /\ UNCHANGED notScore
    \/ ScoreReturn /\ UNCHANGED notScore
    \/ SkelScoreRaiseNoToken /\ UNCHANGED notSkelScore
    \/ SkelScoreRaiseOneToken /\ UNCHANGED notSkelScore
    \/ SkelScoreRaiseUnbound /\ UNCHANGED notSkelScore
    \/ SkelScoreRaiseZeroDivision /\ UNCHANGED notSkelScore
    \/ SkelScoreLine /\ UNCHANGED notSkelScore
    \/ SkelScoreReturn /\ UNCHANGED notSkelScore

SpecSkel == InitSkel /\ [][NextSkel]_vars

-----------------------------------------------------------------------------
(* Specification of core load_data *)

InitLoad ==
    /\ MapIdle /\ mapping_list = <<>> /\ GoIdle /\ ScoreIdle /\ JacIdle
    /\ AlignIdle /\ MetricsIdle /\ InitLoadData /\ SkelScoreIdle /\ FilterIdle
    /\ PermIdle

NextLoad ==
    \/ LoadNotFound /\ UNCHANGED notLoad
    \/ LoadNoEnsemblColumn /\ UNCHANGED notLoad
    \/ LoadParseMapping /\ UNCHANGED notLoad
    \/ LoadParseGo /\ UNCHANGED notLoad
    \/ LoadParseAlignment /\ UNCHANGED notLoad

SpecLoad == InitLoad /\ [][NextLoad]_vars

-----------------------------------------------------------------------------
(* Specification of core load_data followed by filter_high_quality_alignments *)

NextFilter ==
    \/ LoadNotFound /\ UNCHANGED notLoad
    \/ LoadNoEnsemblColumn /\ UNCHANGED notLoad
    \/ LoadParseMapping /\ UNCHANGED notLoad
    \/ LoadParseGo /\ UNCHANGED notLoad
    \/ LoadParseAlignment /\ UNCHANGED notLoad
    \/ FilterCall /\ UNCHANGED notFilter
    \/ FilterRaiseNoData /\ UNCHANGED notFilter
    \/ FilterScorePair /\ UNCHANGED notFilter
    \/ FilterRaiseUnknown /\ UNCHANGED notFilter
    \/ FilterReturn /\ UNCHANGED notFilter

SpecFilter == InitLoad /\ [][NextFilter]_vars

-----------------------------------------------------------------------------
(* Specification of compute_score on a file and on a permutation of it *)

InitPerm ==
    /\ MapIdle /\ mapping_list = <<>> /\ GoIdle /\ ScoreIdle /\ JacIdle
    /\ AlignIdle /\ MetricsIdle /\ LoadIdle /\ SkelScoreIdle /\ FilterIdle
    /\ InitPermuted

NextPerm ==
    \/ PermUnmappableOne /\ UNCHANGED notPerm
    \/ PermRaiseOneToken /\ UNCHANGED notPerm
    \/ PermUnmappableTwo /\ UNCHANGED notPerm
    \/ PermScorePair /\ UNCHANGED notPerm
    \/ PermReturn /\ UNCHANGED notPerm
    \/ PermCallPermuted /\ UNCHANGED notPerm

SpecPerm == InitPerm /\ [][NextPerm]_vars

-----------------------------------------------------------------------------
(* Properties of compute_score *)

\* C1: when compute_score returns on a file whose lines all have at least
\* two tokens, with annotation maps whose sets are all non-empty, the score
\* is the sum of |S1 \cap S2| / |S1 \cup S2| over exactly the lines on which
\* both proteins are a key of map A or else of map B; other lines add nothing.
C1_ScoreIsJaccardSum ==
    LET Resolves(p) == p \in DOMAIN go_one_dict \cup DOMAIN go_two_dict
        SetOf(p) == IF p \in DOMAIN go_one_dict THEN go_one_dict[p] ELSE go_two_dict[p]
        Term(x) == IF Resolves(x[1]) /\ Resolves(x[2])
                   THEN (Cardinality(SetOf(x[1]) \cap SetOf(x[2])) * Scale)
                            \div Cardinality(SetOf(x[1]) \cup SetOf(x[2]))
                   ELSE 0
        RECURSIVE Sum(_)
        Sum(n) == IF n = 0 THEN 0 ELSE Sum(n - 1) + Term(aln_read[n])
    IN (/\ score_pc = "done"
        /\ \A j \in 1..Len(aln_read) : Len(aln_read[j]) >= 2
        /\ \A p \in DOMAIN go_one_dict : go_one_dict[p] # {}
        /\ \A p \in DOMAIN go_two_dict : go_two_dict[p] # {})
       => score = Sum(Len(aln_read))

\* a returned run over a scored line (coefficient strictly between 0 and 1)
\* and a line with an unresolved protein, all sets non-empty
C1_Witness ==
    /\ score_pc = "done"
    /\ Len(aln_read) = 2
    /\ \A j \in 1..Len(aln_read) : Len(aln_read[j]) >= 2
    /\ \A p \in DOMAIN go_one_dict : go_one_dict[p] # {}
    /\ \A p \in DOMAIN go_two_dict : go_two_dict[p] # {}
    /\ unmappable_one + unmappable_two = 1
    /\ score > 0 /\ score < Scale

\* C2: a line of at least two tokens has one of three effects.  First protein
\* in neither map: unmappable_one grows by one, unmappable_two and the score
\* are unchanged, also when the second protein is unmappable too.  Otherwise,
\* second protein in neither map: unmappable_two grows by one, unmappable_one
\* and the score are unchanged.  Otherwise both counters are unchanged and
\* only the score may grow (the call can fail only in this last case, at the
\* division, when both sets are empty).
C2_OneOfThreeEffects ==
    [][(score_pc = "run" /\ Len(aln_read') = Len(aln_read) + 1
            /\ Len(aln_read'[Len(aln_read')]) >= 2)
       => LET x == aln_read'[Len(aln_read')]
              In(p) == p \in DOMAIN go_one_dict \cup DOMAIN go_two_dict
          IN IF ~In(x[1])
             THEN /\ unmappable_one' = unmappable_one + 1
                  /\ unmappable_two' = unmappable_two
                  /\ score' = score
                  /\ score_pc' = "run"
             ELSE IF ~In(x[2])
             THEN /\ unmappable_two' = unmappable_two + 1
                  /\ unmappable_one' = unmappable_one
                  /\ score' = score
                  /\ score_pc' = "run"
             ELSE /\ unmappable_one' = unmappable_one
                  /\ unmappable_two' = unmappable_two
                  /\ score' >= score
                  /\ (score_pc' = "run" \/ protein1_go'.terms \cup protein2_go'.terms = {})
      ]_vars

\* the line read last has two unmappable proteins and only the first counter grew
C2_Witness ==
    /\ score_pc = "run"
    /\ Len(aln_read) = 1
    /\ Len(aln_read[1]) >= 2
    /\ aln_read[1][1] \notin DOMAIN go_one_dict \cup DOMAIN go_two_dict
    /\ aln_read[1][2] \notin DOMAIN go_one_dict \cup DOMAIN go_two_dict
    /\ unmappable_one = 1
    /\ unmappable_two = 0

\* C3: the set used for a protein, in either position of the pair, is its set
\* in map A whenever the protein is a key of A, and its set in map B only when
\* it is a key of B and not of A.
C3_MapAFirst ==
    [][(score_pc = "run" /\ Len(aln_read') = Len(aln_read) + 1)
       => LET x == aln_read'[Len(aln_read')]
              In(p) == p \in DOMAIN go_one_dict \cup DOMAIN go_two_dict
              FromA(p, used) == p \in DOMAIN go_one_dict
                                   => used = [bound |-> TRUE, terms |-> go_one_dict[p]]
              FromB(p, used) == (p \notin DOMAIN go_one_dict /\ p \in DOMAIN go_two_dict)
                                   => used = [bound |-> TRUE, terms |-> go_two_dict[p]]
          IN /\ (Len(x) >= 1 /\ In(x[1]))
                  => (FromA(x[1], protein1_go') /\ FromB(x[1], protein1_go'))
             /\ (Len(x) >= 2 /\ In(x[1]) /\ In(x[2]))
                  => (FromA(x[2], protein2_go') /\ FromB(x[2], protein2_go'))
      ]_vars

\* a scored line whose first protein is a key of both maps with different sets
\* and whose second protein is a key of map B only
C3_Witness ==
    /\ score_pc = "run"
    /\ Len(aln_read) = 1
    /\ Len(aln_read[1]) >= 2
    /\ LET p1 == aln_read[1][1]
           p2 == aln_read[1][2]
       IN /\ p1 \in DOMAIN go_one_dict /\ p1 \in DOMAIN go_two_dict
          /\ go_one_dict[p1] # go_two_dict[p1]
          /\ p2 \notin DOMAIN go_one_dict /\ p2 \in DOMAIN go_two_dict
          /\ protein1_go = [bound |-> TRUE, terms |-> go_one_dict[p1]]
          /\ protein2_go = [bound |-> TRUE, terms |-> go_two_dict[p2]]

-----------------------------------------------------------------------------
(* Properties of get_go_terms *)

\* C4: a processed GO line changes the set of one canonical identifier only,
\* the value of the line's foreign identifier (second token) in the first
\* lookup map that has it as a key; every other canonical identifier, also
\* one that a later lookup map gives for the same identifier, receives nothing.
C4_FirstMapOnly ==
    [][(go_pc = "run" /\ go_pc' = "run" /\ ~go_line'.comment)
       => LET query == go_line'.toks[2]
              hits == {i \in 1..Len(mapping_list) : query \in DOMAIN mapping_list[i]}
              Same(k) == /\ k \in DOMAIN go_dict' <=> k \in DOMAIN go_dict
                         /\ k \in DOMAIN go_dict => go_dict'[k] = go_dict[k]
          IN IF hits = {} THEN go_dict' = go_dict
             ELSE LET first == CHOOSE i \in hits : \A j \in hits : i <= j
                  IN \A k \in (Canon \cup DOMAIN go_dict') \ {mapping_list[first][query]} :
                        Same(k)
      ]_vars

\* C5: a processed GO line adds to a set only terms that are GO:-prefixed
\* tokens of that very line (prefix stripped), and a line without any
\* GO:-prefixed token adds no term and creates no entry.
C5_TermsOfThisLineOnly ==
    [][(go_pc = "run" /\ go_pc' = "run" /\ ~go_line'.comment)
       => LET x == go_line'.toks
              lineTerms == {Strip(x[i]) : i \in {j \in 1..Len(x) : StartsWithGO(x[j])}}
              Old(k) == IF k \in DOMAIN go_dict THEN go_dict[k] ELSE {}
          IN /\ \A k \in DOMAIN go_dict' : go_dict'[k] \ Old(k) \subseteq lineTerms
             /\ lineTerms = {} => go_dict' = go_dict
      ]_vars

\* C6: the AnnotationMap only grows while the file is read: no step removes a
\* key or a term of a set, and after every line every key has a non-empty set.
C6_OnlyGrows ==
    [][/\ \A k \in DOMAIN go_dict : k \in DOMAIN go_dict' /\ go_dict[k] \subseteq go_dict'[k]
       /\ \A k \in DOMAIN go_dict' : go_dict'[k] # {}
      ]_vars

\* a later line has augmented the set of a canonical identifier
C6_Witness ==
    /\ go_pc = "run"
    /\ \E k \in DOMAIN go_dict : Cardinality(go_dict[k]) = 2

\* C27 as stated: a resolved GO line with several GO:-prefixed tokens adds
\* exactly one term to the sets, the last GO:-prefixed token of the line
\* without its three-character prefix, and records no other token of the line.
C27_LastTokenWithoutPrefix ==
    [][LET x == go_line'.toks
           gos == {j \in 1..Len(x) : StartsWithGO(x[j])}
           Old(k) == IF k \in DOMAIN go_dict THEN go_dict[k] ELSE {}
       IN (/\ go_pc = "run" /\ go_pc' = "run" /\ ~go_line'.comment
           /\ Cardinality(gos) >= 2
           /\ Resolvable(mapping_list, x[2]))
          => LET last == x[Max(gos)]
                 term == SubSeq(last, 4, Len(last))
             IN /\ \A k \in DOMAIN go_dict' : go_dict'[k] \ Old(k) \subseteq {term}
                /\ \E k \in DOMAIN go_dict' : term \in go_dict'[k]
      ]_vars

\* C27, amended: a resolved GO line with several GO:-prefixed tokens adds
\* exactly one term to the sets and records no other token of the line; the
\* term is the last GO:-prefixed token of the line with its leading and
\* trailing characters 'G', 'O' and ':' removed, which is the token without
\* its prefix when what follows the prefix neither begins nor ends with one
\* of these characters (as every numeric code does).
C27_LastTokenStripped ==
    [][LET x == go_line'.toks
           gos == {j \in 1..Len(x) : StartsWithGO(x[j])}
           Old(k) == IF k \in DOMAIN go_dict THEN go_dict[k] ELSE {}
       IN (/\ go_pc = "run" /\ go_pc' = "run" /\ ~go_line'.comment
           /\ Cardinality(gos) >= 2
           /\ Resolvable(mapping_list, x[2]))
          => LET last == x[Max(gos)]
                 suffix == SubSeq(last, 4, Len(last))
                 term == Strip(last)
             IN /\ \A k \in DOMAIN go_dict' : go_dict'[k] \ Old(k) \subseteq {term}
                /\ \E k \in DOMAIN go_dict' : term \in go_dict'[k]
                /\ (/\ suffix # <<>>
                    /\ suffix[1] \notin StripChars
                    /\ suffix[Len(suffix)] \notin StripChars) => term = suffix
      ]_vars

\* the first line read carries two GO:-prefixed tokens of different terms and
\* its identifier is resolved: the set holds the last token's term only
C27_Witness ==
    /\ go_pc = "run"
    /\ ~go_line.comment
    /\ LET x == go_line.toks
           gos == {j \in 1..Len(x) : StartsWithGO(x[j])}
       IN /\ Cardinality(gos) >= 2
          /\ Len(x) >= 2
          /\ Resolvable(mapping_list, x[2])
          /\ \E j \in gos : Strip(x[j]) # Strip(x[Max(gos)])
          /\ \E k \in DOMAIN go_dict : go_dict[k] = {Strip(x[Max(gos)])}
          /\ \A k \in DOMAIN go_dict : go_dict[k] = {Strip(x[Max(gos)])}

-----------------------------------------------------------------------------
(* Properties of get_mapping *)

\* C7: after get_mapping has returned, lookup map i (counted from 0) maps an
\* alternate identifier a to the first token of the last line that is not the
\* header line again, has as many tokens as the header and has a as token
\* i + 2; identifiers on no such line are not keys of lookup map i.
C7_LastOccurrenceWins ==
    map_pc = "done" =>
        \A i \in 1..(Len(header) - 1) :
            /\ i \in DOMAIN mapping_list
            /\ LET Rows(a) == {j \in 1..Len(map_read) :
                                  /\ ~map_read[j].eqhdr
                                  /\ Len(map_read[j].toks) = Len(header)
                                  /\ map_read[j].toks[i + 1] = a}
               IN \A a \in MapToks \cup DOMAIN mapping_list[i] :
                     IF Rows(a) = {} THEN a \notin DOMAIN mapping_list[i]
                     ELSE /\ a \in DOMAIN mapping_list[i]
                          /\ mapping_list[i][a] = map_read[Max(Rows(a))].toks[1]

\* two well-formed lines share an alternate identifier and differ in their
\* canonical identifier; the returned map has the second one's
C7_Witness ==
    /\ map_pc = "done"
    /\ Len(header) = 2
    /\ Len(map_read) = 2
    /\ \A j \in 1..2 : ~map_read[j].eqhdr /\ Len(map_read[j].toks) = 2
    /\ map_read[1].toks[2] = map_read[2].toks[2]
    /\ map_read[1].toks[1] # map_read[2].toks[1]
    /\ mapping_list[1][map_read[2].toks[2]] = map_read[2].toks[1]

\* C8: a data line whose token count differs from the header's (shorter,
\* longer or without any token) is skipped: no lookup map changes, nothing is
\* raised and parsing goes on.
C8_MismatchSkipped ==
    [][(/\ map_pc = "run"
        /\ Len(map_read') = Len(map_read) + 1
        /\ ~map_read'[Len(map_read')].eqhdr
        /\ Len(map_read'[Len(map_read')].toks) # Len(header))
       => (mapping_list' = mapping_list /\ map_pc' = "run")
      ]_vars

\* C9 (get_mapping's part): whatever the data lines are, get_mapping raises
\* nothing and returns max(0, h - 1) lookup maps, h the header's token count.
C9_TableSize ==
    /\ map_pc # "failed"
    /\ map_pc = "done"
          => Len(mapping_list) = (IF Len(header) >= 1 THEN Len(header) - 1 ELSE 0)

\* C9 (get_go_terms's part): with an empty table, get_go_terms raises nothing
\* on lines of at least two tokens and its AnnotationMap stays empty.
C9_EmptyTableNoAnnotation ==
    mapping_list = <<>> =>
        /\ go_dict = EmptyDict
        /\ go_pc = "failed" => Len(go_line.toks) < 2

-----------------------------------------------------------------------------
(* Properties of JaccardSimilarity.calculate *)

\* C10: calculate(S, S) is 1.0 for every S, calculate(S, {}) and
\* calculate({}, S) are 0.0 for every non-empty S, calculate({}, {}) is 1.0.
C10_JaccardEdgeCases ==
    jac_pc = "done" =>
        /\ go_terms_1 = go_terms_2 => jac_result = Scale
        /\ (go_terms_1 # {} /\ go_terms_2 = {}) => jac_result = 0
        /\ (go_terms_1 = {} /\ go_terms_2 # {}) => jac_result = 0
        /\ (go_terms_1 = {} /\ go_terms_2 = {}) => jac_result = Scale

\* calculate has returned 1.0 on two empty sets
C10_Witness ==
    /\ jac_pc = "done"
    /\ go_terms_1 = {}
    /\ go_terms_2 = {}
    /\ jac_result = Scale

\* C11: calculate is symmetric, calculate(A, B) = calculate(B, A) for all sets
\* A and B, empty or not, and its value lies between 0 and 1 inclusive.
C11_JaccardSymmetric ==
    jac_pc = "both" =>
        /\ jac_result = jac_swapped
        /\ 0 <= jac_result /\ jac_result <= Scale

\* both calls have returned for two different non-empty overlapping sets
C11_Witness ==
    /\ jac_pc = "both"
    /\ go_terms_1 # {} /\ go_terms_2 # {}
    /\ Cardinality(go_terms_1) < Cardinality(go_terms_2)
    /\ jac_result = jac_swapped
    /\ 0 < jac_result /\ jac_result < Scale

\* C12: compute_score follows the empty-set edge rule: a line whose two
\* proteins both resolve to empty sets scores 1.0, a line with exactly one
\* empty set scores 0.0, and in neither case does the call fail.
C12_EmptySetRule ==
    [][\A x \in AlnLines :
          (/\ aln_read' = Append(aln_read, x)
           /\ Len(x) >= 2
           /\ Mappable(x[1], go_one_dict, go_two_dict)
           /\ Mappable(x[2], go_one_dict, go_two_dict))
          => LET s1 == Lookup(x[1], go_one_dict, go_two_dict)
                 s2 == Lookup(x[2], go_one_dict, go_two_dict)
             IN /\ (s1 = {} /\ s2 = {})
                      => (score' = score + Scale /\ score_pc' = "run")
                /\ ((s1 = {}) # (s2 = {}))
                      => (score' = score /\ score_pc' = "run")]_vars

\* C18: every alignment line with fewer than two tokens makes compute_score
\* raise, whether or not its token is a key of an annotation map, and is never
\* counted as an unmappable pair.
C18_ShortLineFails ==
    [][\A x \in AlnLines :
          (aln_read' = Append(aln_read, x) /\ Len(x) < 2 /\ x \notin CommentLines)
          => /\ score_pc' = "failed"
             /\ unmappable_one' = unmappable_one
             /\ unmappable_two' = unmappable_two]_vars

-----------------------------------------------------------------------------
(* Properties of score_alignment *)

\* C13: in the result of score_alignment, scored_pairs is non-negative and
\* equals the number of lines whose Jaccard score compute_score added to
\* total_score.
C13_ScoredPairsCount ==
    align_pc = "done" =>
        LET scored == {i \in DOMAIN aln_read :
                          /\ Len(aln_read[i]) >= 2
                          /\ Mappable(aln_read[i][1], go_one_dict, go_two_dict)
                          /\ Mappable(aln_read[i][2], go_one_dict, go_two_dict)}
        IN /\ results.scored_pairs >= 0
           /\ results.scored_pairs = Cardinality(scored)

\* C14: a line of the alignment file that starts with '#' changes neither
\* unmappable_1, nor unmappable_2, nor total_score, and is not counted in
\* total_pairs.
C14_CommentLineIsNoPair ==
    [][/\ \A x \in CommentLines :
             aln_read' = Append(aln_read, x)
             => /\ unmappable_one' = unmappable_one
                /\ unmappable_two' = unmappable_two
                /\ score' = score
       /\ align_pc' = "done"
             => results'.total_pairs =
                    Cardinality({i \in DOMAIN aln_read' : aln_read'[i] \notin CommentLines})
      ]_vars

\* C15: in the result of score_alignment, coverage equals (lines on which
\* both proteins resolved) / (lines that are pairs), is 0.0 when there is no
\* pair, and lies between 0 and 1 inclusive.
C15_CoverageIsFraction ==
    align_pc = "done" =>
        LET pairs == {i \in DOMAIN aln_read : aln_read[i] \notin CommentLines}
            both == {i \in pairs :
                        /\ Len(aln_read[i]) >= 2
                        /\ Mappable(aln_read[i][1], go_one_dict, go_two_dict)
                        /\ Mappable(aln_read[i][2], go_one_dict, go_two_dict)}
            c == results.coverage
        IN /\ c.num * Cardinality(pairs) = Cardinality(both) * c.den
           /\ pairs = {} => c.num = 0
           /\ 0 <= c.num /\ c.num <= c.den

\* C16: in the result of score_alignment, mean_score equals total_score
\* divided by the number of pairs that were scored, is 0.0 when no pair was
\* scored, and lies between 0 and 1 inclusive.
C16_MeanOfPairScores ==
    align_pc = "done" =>
        LET scored == {i \in DOMAIN aln_read :
                          /\ Len(aln_read[i]) >= 2
                          /\ Mappable(aln_read[i][1], go_one_dict, go_two_dict)
                          /\ Mappable(aln_read[i][2], go_one_dict, go_two_dict)}
            m == results.mean_score
        IN /\ m.num * Cardinality(scored) = results.total_score * m.den
           /\ scored = {} => m.num = 0
           /\ 0 <= m.num /\ m.num <= m.den * Scale

\* C17: when one of the five input files is missing, score_alignment raises
\* FileNotFoundError and returns no result, whichever other files exist.
C17_MissingFileNotFound ==
    files # FileNames =>
        /\ align_pc # "done"
        /\ align_pc = "failed" => raised = "FileNotFoundError"

\* C30: the stages of score_alignment run strictly in order: the two mapping
\* files, then the two GO files, then the alignment file; an annotation map
\* changes only in the stage of its GO file, the alignment file is read only
\* after both GO stages, and after a failure no stage runs and nothing
\* changes any more.
C30_StagesInOrder ==
    [][LET order == <<"mapping_file_1", "mapping_file_2", "go_file_1", "go_file_2",
                      "alignment_file", "compute_score", "done">>
           Pos(st) == CHOOSE j \in DOMAIN order : order[j] = st
       IN /\ align_pc' # align_pc
               => /\ align_pc \notin {"done", "failed"}
                  /\ \/ align_pc' = "failed"
                     \/ /\ align_pc' \in {order[j] : j \in DOMAIN order}
                        /\ Pos(align_pc') = Pos(align_pc) + 1
          /\ go_one_dict' # go_one_dict => align_pc = "go_file_1"
          /\ go_two_dict' # go_two_dict => align_pc = "go_file_2"
          /\ aln_read' # aln_read => align_pc = "compute_score"
          /\ align_pc = "failed" => UNCHANGED <<alignVars, scoreVars>>
          /\ raised' # raised => align_pc' = "failed"
      ]_vars

\* a run in which every stage has run: both annotation maps are built, lines
\* of the alignment file have been read and the results are returned
C30_Witness ==
    /\ align_pc = "done"
    /\ files = FileNames
    /\ go_one_dict # EmptyDict
    /\ go_two_dict # EmptyDict
    /\ aln_read # <<>>
    /\ results # NoResults

-----------------------------------------------------------------------------
(* Properties of calculate_alignment_score *)

\* C19: the result of calculate_alignment_score satisfies
\* scored_pairs + unmappable_1 + unmappable_2 = total_pairs.
C19_CountsAddUp ==
    metrics_pc = "done" =>
        metrics_result.scored_pairs + metrics_result.unmappable_1
            + metrics_result.unmappable_2 = metrics_result.total_pairs

\* C20: calculate_alignment_score looks each protein up in both annotation
\* maps: a protein is counted as unmappable only when it is a key of neither
\* map, and a pair is scored whenever each of its proteins is a key of at
\* least one map (stated for annotation maps without empty sets).
C20_LookupInBothMaps ==
    [][\A pair \in AlignmentPairs :
          (/\ pairs_read' = Append(pairs_read, pair)
           /\ metrics_pc' = "run"
           /\ \A k \in DOMAIN go_annotations_1 : go_annotations_1[k] # {}
           /\ \A k \in DOMAIN go_annotations_2 : go_annotations_2[k] # {})
          => /\ unmappable_1' # unmappable_1
                  => ~Mappable(pair[1], go_annotations_1, go_annotations_2)
             /\ unmappable_2' # unmappable_2
                  => ~Mappable(pair[2], go_annotations_1, go_annotations_2)
             /\ (/\ Mappable(pair[1], go_annotations_1, go_annotations_2)
                 /\ Mappable(pair[2], go_annotations_1, go_annotations_2))
                  => Len(scores') = Len(scores) + 1]_vars

\* C28: the dictionary returned by calculate_alignment_score has every field
\* that get_alignment_quality_report reads (mean_score, median_score,
\* std_score, min_score, max_score, coverage, total_pairs, scored_pairs,
\* unmappable_1, unmappable_2), whatever the input.
C28_AllFieldsPresent ==
    metrics_pc = "done" => ReportFields \subseteq DOMAIN metrics_result

\* C22 as stated: compute_score returns the same (unmappable_one,
\* unmappable_two, score) for every permutation of the lines of the file.
C22_SameForEveryPermutation ==
    perm_pc = "done" => perm_second = perm_first

\* C22, amended: for every permutation of the lines compute_score fails or
\* returns as it does on the file, with the same unmappable_one and
\* unmappable_two; a line's contribution is the Jaccard coefficient of its
\* own two sets whatever the lines before it, and the score is the float sum
\* of the contributions added in file order: it is the same for every
\* permutation when at most two lines are scored.
C22_SameUpToSummationOrder ==
    LET Scored(x) == /\ Len(x) >= 2
                     /\ Mappable(x[1], PermMapOne, PermMapTwo)
                     /\ Mappable(x[2], PermMapOne, PermMapTwo)
        Contribution(x) == FloatDiv(Cardinality(PermMapOne[x[1]] \cap PermMapTwo[x[2]]),
                                    Cardinality(PermMapOne[x[1]] \cup PermMapTwo[x[2]]))
        RECURSIVE SumInOrder(_, _)
        SumInOrder(lines, n) ==
            IF n = 0 THEN FloatZero
            ELSE IF Scored(lines[n])
                 THEN FloatAdd(SumInOrder(lines, n - 1), Contribution(lines[n]))
                 ELSE SumInOrder(lines, n - 1)
    IN perm_pc = "done" =>
          /\ perm_second.raised = perm_first.raised
          /\ perm_second.unmappable_one = perm_first.unmappable_one
          /\ perm_second.unmappable_two = perm_first.unmappable_two
          /\ ~perm_first.raised =>
                /\ perm_first.score = SumInOrder(perm_file, Len(perm_file))
                /\ perm_second.score = SumInOrder(perm_order, Len(perm_order))
          /\ Cardinality({i \in DOMAIN perm_file : Scored(perm_file[i])}) <= 2
                => perm_second.score = perm_first.score

\* both calls have returned on three lines in two different orders: two
\* scored lines of different scores around an unmappable one
C22_Witness ==
    /\ perm_pc = "done"
    /\ perm_file = <<<<<<"A">>, <<"D">>>>, <<<<"U">>, <<"D">>>>, <<<<"B">>, <<"D">>>>>>
    /\ perm_order = <<<<<<"B">>, <<"D">>>>, <<<<"A">>, <<"D">>>>, <<<<"U">>, <<"D">>>>>>
    /\ ~perm_first.raised
    /\ perm_first.unmappable_one = 1
    /\ perm_first.score = FloatDiv(1, 1)
    /\ perm_second = perm_first

-----------------------------------------------------------------------------
(* Properties of core filter_high_quality_alignments *)

\* C29: every pair returned by filter_high_quality_alignments with a
\* threshold above 0 has, for each of its proteins, a non-empty GO-term set in
\* its species' annotation map, and the two sets share a GO term.
C29_ReturnedPairsAreAnnotated ==
    (filter_pc = "done" /\ filter_threshold > 0) =>
        \A i \in DOMAIN high_quality :
            LET terms_1 == Get(core_go_annotations["species1"], high_quality[i][1])
                terms_2 == Get(core_go_annotations["species2"], high_quality[i][2])
            IN /\ terms_1 # {}
               /\ terms_2 # {}
               /\ terms_1 \cap terms_2 # {}

-----------------------------------------------------------------------------
(* Properties of repeated and of original-assignment calls *)

\* C21: get_mapping called twice on the same file contents, on the same
\* object and with or without a call on another file in between, returns
\* identical lists of lookup maps.
C21_GetMappingIdempotent ==
    map_pc = "again" => map_second = mapping_list

\* the second call returned, after a call on another file, a list that holds
\* an entry
C21_Witness ==
    /\ map_pc = "again"
    /\ map_other # <<>>
    /\ map_second = mapping_list
    /\ \E i \in DOMAIN mapping_list : mapping_list[i] # EmptyDict

\* C24: for every mapping file, get_mapping has the outcome of
\* final_assignment_skeleton.get_mapping and returns the same list of lookup
\* maps.
C24_MatchesSkeletonGetMapping ==
    skel_pc # "idle" =>
        /\ (skel_pc = "done") <=> (map_pc # "failed")
        /\ skel_pc = "done" => skel_list = mapping_list

\* C25: compute_score and the skeleton's compute_score, given the same file
\* and dictionaries, have the same outcome: both fail, or both return, and
\* then the same (unmappable_one, unmappable_two, score).
C25_MatchesSkeletonComputeScore ==
    skel_score_pc \in {"done", "failed"} =>
        /\ (skel_score_pc = "done") <=> (score_pc = "done")
        /\ skel_score_pc = "done" =>
               /\ skel_unmappable_one = unmappable_one
               /\ skel_unmappable_two = unmappable_two
               /\ skel_score = score

\* C26: in the skeleton's compute_score every two-token line with a protein
\* in neither dictionary ends the call with an unbound local set at the line
\* score, wherever the line sits: a line of that kind that has been read is
\* the last line read, and the call has failed on it.
C26_SkeletonFailsOnUnmappable ==
    \A i \in 1..skel_read :
        LET x == aln_read[i]
        IN (/\ Len(x) >= 2
            /\ \/ ~Mappable(x[1], go_one_dict, go_two_dict)
               \/ ~Mappable(x[2], go_one_dict, go_two_dict))
           => /\ i = skel_read
              /\ skel_score_pc = "failed"
              /\ skel_raised = "UnboundLocalError"

-----------------------------------------------------------------------------
(* Properties of core load_data *)

\* C23: after load_data, go_annotations['species1'] is go_file_1 resolved
\* against the table parsed from mapping_file_1 and go_annotations['species2']
\* is go_file_2 resolved against the table parsed from mapping_file_2.
C23_OwnTableResolves ==
    load_pc = "done" =>
        /\ core_go_annotations["species1"] =
               ParseGoFile(load_go_1, core_mappings["species1"]).go_annotations
        /\ core_go_annotations["species2"] =
               ParseGoFile(load_go_2, core_mappings["species2"]).go_annotations

=============================================================================
